---------------------------- MODULE Spec2Model ----------------------------
(***************************************************************************)
(* Healthcare knowledge graph: the Hetionet edge loop and its evidence     *)
(* extractor (hetionet_extract_to_csv.py), and the identifier-chain        *)
(* mapping scripts (map_sider_stitch_to_chembl_via_pubchem.py,             *)
(* map_chembl_to_drugbank_unichem_dump.py, map_uniprot_to_entrez.py).      *)
(* The extraction programs: extract_chembl_sqlite_cli.py, the node loop   *)
(* of hetionet_extract_to_csv.py, and extract_sider.py.                    *)
(*                                                                         *)
(* Python strings are TLA+ strings (sequences of characters); a JSON or    *)
(* CSV value is a record [t |-> type tag, v |-> value].                    *)
(***************************************************************************)
EXTENDS Integers, Sequences, FiniteSets, TLC

VARIABLES
    \* hetionet_extract_to_csv.py, edge loop
    e, E_DRUG_TARGETS, E_DRUG_TREATS, E_GENE_DISEASE, E_DRUG_SE,
    edge_csv, hpc,
    \* evidence_string called on its own
    payload, evidence, evpc,
    \* extract_pubchem_cid applied to one row's stitch_id, and dropna
    stitch_id, pubchem_cid, row_kept, cpc,
    \* map_sider_stitch_to_chembl_via_pubchem.py
    SIDER_EDGES, UNICHEM_CHEMBL_TO_PUBCHEM, CHEMBL_PHASE4, edges, uc, map_full,
    OUT_MAP_FULL, OUT_MAP_PHASE4, spc,
    \* map_chembl_to_drugbank_unichem_dump.py
    PHASE4, UNICHEM_MAP, df_drugs, df_map, merged, missing_ids, OUT_MAP, OUT_MISS, dpc,
    \* map_uniprot_to_entrez.py
    TARGETS, UNIPROT_INPUT, target_uniprots, mapping, OUT, upc,
    \* extract_chembl_sqlite_cli.py
    args, con, dm_td_join, dm_md_join, name_expr, tmp_syn, NODES_DRUG,
    EDGES_DRUG_TARGETS, NODES_TARGET, xerror, xpc,
    \* hetionet_extract_to_csv.py, node loop
    nodes, node_i, compound_rows, gene_rows, disease_rows, se_rows, node_csv, npc,
    \* extract_sider.py
    ALL_SE, FREQ, NODES_SIDE_EFFECT_SIDER, EDGES_STITCH, sxpc

hetVars == <<e, E_DRUG_TARGETS, E_DRUG_TREATS, E_GENE_DISEASE, E_DRUG_SE,
             edge_csv, hpc>>
evVars == <<payload, evidence, evpc>>
cidVars == <<stitch_id, pubchem_cid, row_kept, cpc>>
siderVars == <<SIDER_EDGES, UNICHEM_CHEMBL_TO_PUBCHEM, CHEMBL_PHASE4, edges, uc, map_full,
               OUT_MAP_FULL, OUT_MAP_PHASE4, spc>>
drugbankVars == <<PHASE4, UNICHEM_MAP, df_drugs, df_map, merged, missing_ids, OUT_MAP,
                  OUT_MISS, dpc>>
uniprotVars == <<TARGETS, UNIPROT_INPUT, target_uniprots, mapping, OUT, upc>>
chainVars == <<siderVars, drugbankVars, uniprotVars>>
chemblVars == <<args, con, dm_td_join, dm_md_join, name_expr, tmp_syn, NODES_DRUG,
                EDGES_DRUG_TARGETS, NODES_TARGET, xerror, xpc>>
hetNodeVars == <<nodes, node_i, compound_rows, gene_rows, disease_rows, se_rows, node_csv, npc>>
siderNodeVars == <<ALL_SE, FREQ, NODES_SIDE_EFFECT_SIDER, EDGES_STITCH, sxpc>>
nodeVars == <<hetNodeVars, siderNodeVars>>
extractVars == <<chemblVars, nodeVars>>
vars == <<hetVars, evVars, cidVars, chainVars, extractVars>>

----------------------------------------------------------------------------
(* Characters and strings *)

Char(s, i) == SubSeq(s, i, i)

\* The characters the model uses, in code-point order.
AsciiChars ==
    " !\"'(),-.0123456789:;ABCDEFGHIJKLMNOPQRSTUVWXYZ[]_abcdefghijklmnopqrstuvwxyz{}"
UpperChars == "ABCDEFGHIJKLMNOPQRSTUVWXYZ"
DigitChars == "0123456789"

IndexIn(c, s) == CHOOSE i \in 1..Len(s) : Char(s, i) = c
CharSet == {Char(AsciiChars, i) : i \in 1..Len(AsciiChars)}
\* ord(c), as a rank among the characters used
OrdOf == [c \in CharSet |-> IndexIn(c, AsciiChars)]
Ord(c) == OrdOf[c]

IsSpace(c) == c = " "

\* Python's str < str: lexicographic by code point.
RECURSIVE StrLess(_, _)
StrLess(a, b) ==
    IF b = "" THEN FALSE
    ELSE IF a = "" THEN TRUE
    ELSE IF Head(a) = Head(b) THEN StrLess(Tail(a), Tail(b))
    ELSE Ord(Head(a)) < Ord(Head(b))

\* str.lower()
LowerOf ==
    [c \in CharSet |->
        IF \E i \in 1..Len(UpperChars) : Char(UpperChars, i) = c
        THEN Char("abcdefghijklmnopqrstuvwxyz", IndexIn(c, UpperChars)) ELSE c]
RECURSIVE PyLower(_)
PyLower(s) == IF s = "" THEN "" ELSE LowerOf[Head(s)] \o PyLower(Tail(s))

\* str.strip()
RECURSIVE LStrip(_)
LStrip(s) == IF s # "" /\ IsSpace(Head(s)) THEN LStrip(Tail(s)) ELSE s
RECURSIVE RStrip(_)
RStrip(s) ==
    IF s # "" /\ IsSpace(Char(s, Len(s))) THEN RStrip(SubSeq(s, 1, Len(s) - 1)) ELSE s
PyStrip(s) == RStrip(LStrip(s))

\* str(n) for an int
RECURSIVE NatToStr(_)
NatToStr(n) ==
    IF n < 10 THEN Char(DigitChars, n + 1)
    ELSE NatToStr(n \div 10) \o Char(DigitChars, (n % 10) + 1)
IntToStr(n) == IF n < 0 THEN "-" \o NatToStr(-n) ELSE NatToStr(n)

\* sep.join(seq) for a sequence of strings
RECURSIVE PyJoin(_, _)
PyJoin(sep, seq) ==
    IF seq = <<>> THEN ""
    ELSE IF Len(seq) = 1 THEN seq[1]
    ELSE seq[1] \o sep \o PyJoin(sep, Tail(seq))

\* sorted(seq) for a sequence of strings (stable insertion sort)
RECURSIVE InsertSorted(_, _)
InsertSorted(x, seq) ==
    IF seq = <<>> THEN <<x>>
    ELSE IF StrLess(x, Head(seq)) THEN <<x>> \o seq
    ELSE <<Head(seq)>> \o InsertSorted(x, Tail(seq))
RECURSIVE PySorted(_)
PySorted(seq) ==
    IF seq = <<>> THEN <<>>
    ELSE InsertSorted(seq[Len(seq)], PySorted(SubSeq(seq, 1, Len(seq) - 1)))

----------------------------------------------------------------------------
(* Python / JSON values *)

None == [t |-> "null", v |-> 0]
PStr(s) == [t |-> "str", v |-> s]
PInt(n) == [t |-> "int", v |-> n]
PList(q) == [t |-> "list", v |-> q]
\* a dict is its items in insertion order: <<key string, value>>
PDict(items) == [t |-> "dict", v |-> items]

IsNone(x) == x.t = "null"

\* bool(x)
Truthy(x) ==
    CASE x.t = "null" -> FALSE
      [] x.t = "str" -> x.v # ""
      [] x.t = "int" -> x.v # 0
      [] OTHER -> Len(x.v) > 0

\* k in d, d[k]
HasKey(dd, k) == \E i \in 1..Len(dd.v) : dd.v[i][1] = k
GetKey(dd, k) == dd.v[CHOOSE i \in 1..Len(dd.v) : dd.v[i][1] = k][2]

\* repr(x) and str(x)
RECURSIVE PyRepr(_)
RECURSIVE ReprItems(_)
ReprItems(q) == [i \in 1..Len(q) |-> PyRepr(q[i])]
PyRepr(x) ==
    CASE x.t = "null" -> "None"
      [] x.t = "str" -> "'" \o x.v \o "'"
      [] x.t = "int" -> IntToStr(x.v)
      [] x.t = "list" -> "[" \o PyJoin(", ", ReprItems(x.v)) \o "]"
      [] x.t = "dict" ->
            "{" \o PyJoin(", ", [i \in 1..Len(x.v) |->
                     "'" \o x.v[i][1] \o "': " \o PyRepr(x.v[i][2])]) \o "}"
PyStr(x) == IF x.t = "str" THEN x.v ELSE PyRepr(x)

\* json.dumps(x, ensure_ascii=False, separators=(",", ":"))
RECURSIVE JsonDumps(_)
JsonDumps(x) ==
    CASE x.t = "null" -> "null"
      [] x.t = "str" -> "\"" \o x.v \o "\""
      [] x.t = "int" -> IntToStr(x.v)
      [] x.t = "list" ->
            "[" \o PyJoin(",", [i \in 1..Len(x.v) |-> JsonDumps(x.v[i])]) \o "]"
      [] x.t = "dict" ->
            "{" \o PyJoin(",", [i \in 1..Len(x.v) |->
                     "\"" \o x.v[i][1] \o "\":" \o JsonDumps(x.v[i][2])]) \o "}"

\* len(x) raises TypeError for None and int
HasLen(x) == x.t \in {"str", "list", "dict"}
PyLen(x) == Len(x.v)

----------------------------------------------------------------------------
(* evidence_string *)

\* (variant: the pmids branch tried before the sources branch)
evidence_string_pmids_first(d) ==
    IF ~Truthy(d) THEN ""
    ELSE IF d.t = "dict" THEN
        IF HasKey(d, "source") /\ GetKey(d, "source").t = "str" THEN GetKey(d, "source").v
        ELSE IF HasKey(d, "pmids") THEN
            LET p == GetKey(d, "pmids") IN
            IF HasLen(p) THEN "pmids:" \o IntToStr(PyLen(p)) ELSE "pmids"
        ELSE IF HasKey(d, "sources") THEN
            LET s == GetKey(d, "sources") IN
            IF s.t = "list" THEN PyJoin(";", PySorted([i \in 1..Len(s.v) |-> PyStr(s.v[i])]))
            ELSE PyStr(s)
        ELSE JsonDumps(d)
    ELSE PyStr(d)

evidence_string(d) ==
    IF ~Truthy(d) THEN ""
    ELSE IF d.t = "dict" THEN
        IF HasKey(d, "source") /\ GetKey(d, "source").t = "str" THEN GetKey(d, "source").v
        ELSE IF HasKey(d, "sources") THEN
            LET s == GetKey(d, "sources") IN
            IF s.t = "list" THEN PyJoin(";", PySorted([i \in 1..Len(s.v) |-> PyStr(s.v[i])]))
            ELSE PyStr(s)
        ELSE IF HasKey(d, "pmids") THEN
            LET p == GetKey(d, "pmids") IN
            IF HasLen(p) THEN "pmids:" \o IntToStr(PyLen(p)) ELSE "pmids"
        ELSE JsonDumps(d)
    ELSE PyStr(d)


----------------------------------------------------------------------------
(* The edge loop of hetionet_extract_to_csv.py *)

MaxEdges == 2

\* x or default
OrElse(x, default) == IF Truthy(x) THEN x ELSE default

NodeKinds == {"Compound", "Gene", "Disease", "Side Effect", "Anatomy"}

\* An edge of the decoded document; e.get(k) of an absent key is None.
RawEdges ==
    { [kind |-> k, direction |-> dr, source_id |-> <<sk, ids[1]>>,
       target_id |-> <<tk, ids[2]>>, data |-> dd] :
        k \in {PStr("binds"), PStr("treats"), PStr("associates"), PStr("causes"),
              PStr(" Binds"), PStr("resembles"), None},
        dr \in {None, PStr("forward"), PStr("both"), PStr("reverse"), PStr("Both ")},
        sk \in NodeKinds, tk \in NodeKinds,
        ids \in {<<PInt(7157), PStr("D1")>>, <<PStr("D1"), PInt(7157)>>},
        dd \in {PDict(<<<<"sources", PList(<<PStr("b"), PStr("a")>>)>>>>)} }

\* e before the first iteration
NoEdge == [kind |-> None, direction |-> None, source_id |-> <<"", None>>,
           target_id |-> <<"", None>>, data |-> None]

ekind_of(rec) == PyStrip(PyLower(OrElse(rec.kind, PStr("")).v))

DefaultDirectionForward == "forward"
DefaultDirection == "both"
direc_of(rec) == PyStrip(PyLower(OrElse(rec.direction, PStr(DefaultDirection)).v))

\* The rows appended to the four lists; table "none": nothing is appended.
DrugTargetRow(drug, gene, evs) ==
    [table |-> "E_DRUG_TARGETS",
     row |-> [drugbank_id |-> PyStr(drug), entrez_id |-> PyStr(gene), evidence |-> evs]]
DrugTreatsRow(drug, disease, evs) ==
    [table |-> "E_DRUG_TREATS",
     row |-> [drugbank_id |-> PyStr(drug), doid |-> PyStr(disease), evidence |-> evs]]
GeneDiseaseRow(gene, disease, evs) ==
    [table |-> "E_GENE_DISEASE",
     row |-> [entrez_id |-> PyStr(gene), doid |-> PyStr(disease), evidence |-> evs]]
DrugSeRow(drug, se, evs) ==
    [table |-> "E_DRUG_SE",
     row |-> [drugbank_id |-> PyStr(drug), umls_cui |-> PyStr(se), evidence |-> evs]]
NoRow == [table |-> "none", row |-> <<>>]

BindsDirsAny == {"forward", "both", "reverse"}
BindsDirs == {"forward", "both"}

\* (variant: the flipped record is appended without swapping its endpoints)
BindsBranchUnswapped(direc, src_kind, src_id, tgt_kind, tgt_id, evs) ==
    IF src_kind = "Compound" /\ tgt_kind = "Gene" THEN DrugTargetRow(src_id, tgt_id, evs)
    ELSE IF direc = "both" /\ src_kind = "Gene" /\ tgt_kind = "Compound"
        THEN DrugTargetRow(src_id, tgt_id, evs)
    ELSE NoRow

BindsBranch(direc, src_kind, src_id, tgt_kind, tgt_id, evs) ==
    IF src_kind = "Compound" /\ tgt_kind = "Gene" THEN DrugTargetRow(src_id, tgt_id, evs)
    ELSE IF direc = "both" /\ src_kind = "Gene" /\ tgt_kind = "Compound"
        THEN DrugTargetRow(tgt_id, src_id, evs)
    ELSE NoRow

TreatsBranch(direc, src_kind, src_id, tgt_kind, tgt_id, evs) ==
    IF src_kind = "Compound" /\ tgt_kind = "Disease" THEN DrugTreatsRow(src_id, tgt_id, evs)
    ELSE IF direc = "both" /\ src_kind = "Disease" /\ tgt_kind = "Compound"
        THEN DrugTreatsRow(tgt_id, src_id, evs)
    ELSE NoRow

\* (variant: the flipped record is normalized only when direction is 'both')
AssociatesBranchBothOnly(direc, src_kind, src_id, tgt_kind, tgt_id, evs) ==
    IF src_kind = "Gene" /\ tgt_kind = "Disease" THEN GeneDiseaseRow(src_id, tgt_id, evs)
    ELSE IF direc = "both" /\ src_kind = "Disease" /\ tgt_kind = "Gene"
        THEN GeneDiseaseRow(tgt_id, src_id, evs)
    ELSE NoRow

AssociatesBranch(direc, src_kind, src_id, tgt_kind, tgt_id, evs) ==
    IF src_kind = "Gene" /\ tgt_kind = "Disease" THEN GeneDiseaseRow(src_id, tgt_id, evs)
    ELSE IF src_kind = "Disease" /\ tgt_kind = "Gene"
        THEN GeneDiseaseRow(tgt_id, src_id, evs)
    ELSE NoRow

CausesBranch(direc, src_kind, src_id, tgt_kind, tgt_id, evs) ==
    IF src_kind = "Compound" /\ tgt_kind = "Side Effect" THEN DrugSeRow(src_id, tgt_id, evs)
    ELSE IF direc = "both" /\ src_kind = "Side Effect" /\ tgt_kind = "Compound"
        THEN DrugSeRow(tgt_id, src_id, evs)
    ELSE NoRow

\* The loop body on one record: the if/elif chain.
EdgeAppend(rec) ==
    LET ekind == ekind_of(rec)
        direc == direc_of(rec)
        src_kind == rec.source_id[1]
        src_id == rec.source_id[2]
        tgt_kind == rec.target_id[1]
        tgt_id == rec.target_id[2]
        evs == evidence_string(rec.data)
    IN  IF ekind = "binds" /\ direc \in BindsDirs
            THEN BindsBranch(direc, src_kind, src_id, tgt_kind, tgt_id, evs)
        ELSE IF ekind = "treats" /\ direc \in {"forward", "both"}
            THEN TreatsBranch(direc, src_kind, src_id, tgt_kind, tgt_id, evs)
        ELSE IF ekind = "associates" /\ direc \in {"both", "forward"}
            THEN AssociatesBranch(direc, src_kind, src_id, tgt_kind, tgt_id, evs)
        ELSE IF ekind = "causes" /\ direc \in {"forward", "both"}
            THEN CausesBranch(direc, src_kind, src_id, tgt_kind, tgt_id, evs)
        ELSE NoRow

\* The loop body's result for every record of the input domain.

AppendIf(list, name, a) == IF a.table = name THEN Append(list, a.row) ELSE list

n_rows == Len(E_DRUG_TARGETS) + Len(E_DRUG_TREATS) + Len(E_GENE_DISEASE) + Len(E_DRUG_SE)

\* DataFrame.drop_duplicates(): the first occurrence of each row is kept.
RECURSIVE drop_duplicates(_)
drop_duplicates(rows) ==
    IF rows = <<>> THEN <<>>
    ELSE LET init == drop_duplicates(SubSeq(rows, 1, Len(rows) - 1))
             last == rows[Len(rows)]
         IN  IF \E i \in 1..Len(init) : init[i] = last THEN init ELSE Append(init, last)

\* for e in edges: the next record of the document is bound to e.
NextEdge ==
    /\ hpc = "for"
    /\ e' \in RawEdges
    /\ hpc' = "body"
    /\ UNCHANGED <<E_DRUG_TARGETS, E_DRUG_TREATS, E_GENE_DISEASE, E_DRUG_SE,
                   edge_csv, evVars, cidVars, chainVars, extractVars>>

\* One run of the loop body on e.  Either the document holds more records
\* (hpc' = "for": the binding of e is dead, the next iteration rebinds it before
\* any read, and the model resets it) or e was its last record (hpc' = "end",
\* e stays bound).
ProcessEdge ==
    /\ hpc = "body"
    /\ LET a == EdgeAppend(e) IN
        /\ E_DRUG_TARGETS' = AppendIf(E_DRUG_TARGETS, "E_DRUG_TARGETS", a)
        /\ E_DRUG_TREATS' = AppendIf(E_DRUG_TREATS, "E_DRUG_TREATS", a)
        /\ E_GENE_DISEASE' = AppendIf(E_GENE_DISEASE, "E_GENE_DISEASE", a)
        /\ E_DRUG_SE' = AppendIf(E_DRUG_SE, "E_DRUG_SE", a)
    /\ \/ /\ n_rows' < MaxEdges
          /\ hpc' = "for"
          /\ e' = NoEdge
       \/ /\ hpc' = "end"
          /\ e' = e
    /\ UNCHANGED <<edge_csv, evVars, cidVars, chainVars, extractVars>>

\* The four edge CSVs are written after the loop.
WriteEdgeCsvs ==
    /\ hpc = "end"
    /\ edge_csv' = [edges_drug_targets |-> drop_duplicates(E_DRUG_TARGETS),
                    edges_drug_treats |-> drop_duplicates(E_DRUG_TREATS),
                    edges_gene_disease |-> drop_duplicates(E_GENE_DISEASE),
                    edges_drug_sideeffect |-> drop_duplicates(E_DRUG_SE)]
    /\ hpc' = "done"
    /\ UNCHANGED <<e, E_DRUG_TARGETS, E_DRUG_TREATS, E_GENE_DISEASE, E_DRUG_SE, evVars, cidVars, chainVars, extractVars>>

NoCsv == [edges_drug_targets |-> <<>>, edges_drug_treats |-> <<>>,
          edges_gene_disease |-> <<>>, edges_drug_sideeffect |-> <<>>]

\* The document is empty (hpc = "end") or holds a record.
InitHet ==
    /\ e = NoEdge
    /\ E_DRUG_TARGETS = <<>>
    /\ E_DRUG_TREATS = <<>>
    /\ E_GENE_DISEASE = <<>>
    /\ E_DRUG_SE = <<>>
    /\ edge_csv = NoCsv
    /\ hpc \in {"for", "end"}

IdleEv == payload = None /\ evidence = "" /\ evpc = "idle"

IdleCid == stitch_id = None /\ pubchem_cid = None /\ row_kept = FALSE /\ cpc = "idle"


----------------------------------------------------------------------------
(* evidence_string on its own: one call on a payload *)

\* A field the payload does not hold.
Absent == [t |-> "absent", v |-> 0]


Item(k, x) == IF x = Absent THEN <<>> ELSE << <<k, x>> >>
\* The dict holding the given fields, in this insertion order or the reverse.
DictOf(src, srcs, pm, x, rev) ==
    IF rev
    THEN PDict(Item("x", x) \o Item("pmids", pm) \o Item("sources", srcs) \o Item("source", src))
    ELSE PDict(Item("source", src) \o Item("sources", srcs) \o Item("pmids", pm) \o Item("x", x))

NonDictPayloads == {None, PStr(""), PStr("abc"), PInt(0), PInt(7), PList(<<>>),
                    PList(<<PStr("a"), PInt(2)>>)}
Payloads ==
    { DictOf(src, srcs, pm, x, rev) :
        src \in {Absent, PStr("s"), PStr(""), PInt(5)},
        srcs \in {Absent, PList(<<PStr("b"), PStr("a")>>), PList(<<PStr("a"), PStr("b")>>),
                 PList(<<PInt(10), PInt(9)>>), PList(<<>>), PStr("b;a")},
        pm \in {Absent, PList(<<PInt(1), PInt(2), PInt(3)>>), PList(<<>>), PInt(5), None},
        x \in {Absent, PInt(1)}, rev \in BOOLEAN }
    \cup NonDictPayloads

InitEv == payload \in Payloads /\ evidence = "" /\ evpc = "call"

EvidenceCall ==
    /\ evpc = "call"
    /\ evidence' = evidence_string(payload)
    /\ evpc' = "return"
    /\ UNCHANGED <<payload, hetVars, cidVars, chainVars, extractVars>>

IdleHet ==
    /\ e = NoEdge
    /\ E_DRUG_TARGETS = <<>>
    /\ E_DRUG_TREATS = <<>>
    /\ E_GENE_DISEASE = <<>>
    /\ E_DRUG_SE = <<>>
    /\ edge_csv = NoCsv
    /\ hpc = "idle"


----------------------------------------------------------------------------
(* extract_pubchem_cid, and the dropna of main that follows it *)

MaxIdLen == 5

NonZeroDigits == {"1", "2", "3", "4", "5", "6", "7", "8", "9"}
AllDigits(r) == \A i \in 1..Len(r) : \E d \in 1..Len(DigitChars) : Char(r, i) = Char(DigitChars, d)

\* int(s) for a string of digits
RECURSIVE PyInt(_)
PyInt(s) == IF s = "" THEN 0 ELSE 10 * PyInt(SubSeq(s, 1, Len(s) - 1)) + (OrdOf[Char(s, Len(s))] - OrdOf["0"])

\* (variant: the pattern without its "|0" alternative)
GroupMatchesNoZero(r) == r # "" /\ Head(r) \in NonZeroDigits /\ AllDigits(Tail(r))
\* ([1-9]\d*|0)$ matches the whole of r
GroupMatches(r) == \/ r # "" /\ Head(r) \in NonZeroDigits /\ AllDigits(Tail(r))
                   \/ r = "0"

\* re.match(r"CID0*([1-9]\d*|0)$", sid): the ways 0* can be matched, each the
\* number of zeros it takes; the greedy one is tried first.
ZeroRuns(sid) ==
    { k \in 0..(Len(sid) - 3) :
        /\ SubSeq(sid, 1, 3) = "CID"
        /\ \A i \in 4..(3 + k) : Char(sid, i) = "0"
        /\ GroupMatches(SubSeq(sid, 4 + k, Len(sid))) }

extract_pubchem_cid(x) ==
    IF x.t # "str" THEN None
    ELSE LET sid == PyStrip(x.v) IN
         IF ZeroRuns(sid) = {} THEN None
         ELSE LET greedy == CHOOSE k \in ZeroRuns(sid) : \A j \in ZeroRuns(sid) : j <= k
              IN  PInt(PyInt(SubSeq(sid, 4 + greedy, Len(sid))))

RECURSIVE StringsUpTo(_)
StringsUpTo(n) ==
    IF n = 0 THEN {""}
    ELSE LET shorter == StringsUpTo(n - 1) IN
         shorter \cup { q \o c : q \in shorter, c \in {"C", "I", "D", "0", "1", " ", "x"} }
CidInputs ==
    { PStr(q) : q \in StringsUpTo(MaxIdLen) \cup {"CID000010917", "ABC123", "CID102"} }
    \cup {None, PInt(10917)}

InitCid == stitch_id \in CidInputs /\ pubchem_cid = None /\ row_kept = FALSE /\ cpc = "apply"

\* edges["pubchem_cid"] = edges["stitch_id"].apply(extract_pubchem_cid)
ApplyExtract ==
    /\ cpc = "apply"
    /\ pubchem_cid' = extract_pubchem_cid(stitch_id)
    /\ cpc' = "dropna"
    /\ UNCHANGED <<stitch_id, row_kept, hetVars, evVars, chainVars, extractVars>>

\* edges = edges.dropna(subset=["pubchem_cid"])
DropNa ==
    /\ cpc = "dropna"
    /\ row_kept' = ~IsNone(pubchem_cid)
    /\ cpc' = "done"
    /\ UNCHANGED <<stitch_id, pubchem_cid, hetVars, evVars, chainVars, extractVars>>


----------------------------------------------------------------------------
(* Files and data frames of the mapping scripts *)

\* The most data rows an input file holds.
MaxRows == 2

\* An input file: whether its path exists, and its data rows (cells as read
\* with dtype=str; an empty cell is NaN).
File(rows) == [exists |-> TRUE, rows |-> rows]
NoFile == [exists |-> FALSE, rows |-> <<>>]
\* An output file: whether to_csv has written it, and its rows.
Written(rows) == [written |-> TRUE, rows |-> rows]
NotWritten == [written |-> FALSE, rows |-> <<>>]

SeqsUpTo(S, n) == UNION { [1..k -> S] : k \in 0..n }
RowSet(rows) == { rows[i] : i \in 1..Len(rows) }

\* Series.astype(str): NaN becomes "nan"
AsTypeStr(cell) == IF cell = "" THEN "nan" ELSE cell

----------------------------------------------------------------------------
(* map_sider_stitch_to_chembl_via_pubchem.py *)

SiderStitchIds == {"CID01", " CID1", "CID2", "ABC1"}
UniChemPubchemRows ==
    { [chembl_id |-> "CHEMBL1", pubchem_cid |-> "1"],
      [chembl_id |-> "CHEMBL2 ", pubchem_cid |-> "1"],
      [chembl_id |-> "CHEMBL1", pubchem_cid |-> "2"],
      [chembl_id |-> "CHEMBL3", pubchem_cid |-> "x"] }

\* lines 53-59: strip, apply(extract_pubchem_cid), dropna, astype(int)
load_edges(rows) ==
    LET parsed == [i \in 1..Len(rows) |->
                     LET sid == PyStrip(AsTypeStr(rows[i].stitch_id)) IN
                     [stitch_id |-> sid, umls_cui |-> rows[i].umls_cui,
                      cid |-> extract_pubchem_cid(PStr(sid))]]
        valid == SelectSeq(parsed, LAMBDA r : ~IsNone(r.cid))
    IN  [i \in 1..Len(valid) |->
            [stitch_id |-> valid[i].stitch_id, umls_cui |-> valid[i].umls_cui,
             pubchem_cid |-> valid[i].cid.v]]

\* pd.to_numeric(errors="coerce") on a string cell
to_numeric(cell) == IF cell # "" /\ AllDigits(cell) THEN PInt(PyInt(cell)) ELSE None

\* lines 86-92: to_numeric, dropna, astype(int), strip, invert, drop_duplicates
load_unichem(rows) ==
    LET num == [i \in 1..Len(rows) |->
                  [chembl_id |-> rows[i].chembl_id, cid |-> to_numeric(rows[i].pubchem_cid)]]
        valid == SelectSeq(num, LAMBDA r : ~IsNone(r.cid))
    IN  drop_duplicates([i \in 1..Len(valid) |->
            [pubchem_cid |-> valid[i].cid.v,
             chembl_id |-> PyStrip(AsTypeStr(valid[i].chembl_id))]])

\* (variant: a join that keeps one ChEMBL id per SIDER row)
RECURSIVE merge_on_pubchem_cid_first(_, _)
merge_on_pubchem_cid_first(left, right) ==
    IF left = <<>> THEN <<>>
    ELSE LET l == Head(left)
             hits == SelectSeq(right, LAMBDA r : r.pubchem_cid = l.pubchem_cid)
         IN  (IF hits = <<>> THEN <<>>
              ELSE <<[stitch_id |-> l.stitch_id, umls_cui |-> l.umls_cui,
                      pubchem_cid |-> l.pubchem_cid, chembl_id |-> hits[1].chembl_id]>>)
             \o merge_on_pubchem_cid_first(Tail(left), right)

\* edges.merge(uc, on="pubchem_cid", how="inner"): in the order of the left
\* rows, each with every right row of the same key
RECURSIVE merge_on_pubchem_cid(_, _)
merge_on_pubchem_cid(left, right) ==
    IF left = <<>> THEN <<>>
    ELSE LET l == Head(left)
             hits == SelectSeq(right, LAMBDA r : r.pubchem_cid = l.pubchem_cid)
         IN  [i \in 1..Len(hits) |->
                 [stitch_id |-> l.stitch_id, umls_cui |-> l.umls_cui,
                  pubchem_cid |-> l.pubchem_cid, chembl_id |-> hits[i].chembl_id]]
             \o merge_on_pubchem_cid(Tail(left), right)

\* merged[cols]
select_cols(rows) ==
    [i \in 1..Len(rows) |->
        [stitch_id |-> rows[i].stitch_id, pubchem_cid |-> rows[i].pubchem_cid,
         chembl_id |-> rows[i].chembl_id, umls_cui |-> rows[i].umls_cui]]

\* the order of sort_values(["stitch_id", "chembl_id", "umls_cui"])
RowBefore(a, b) ==
    IF a.stitch_id # b.stitch_id THEN StrLess(a.stitch_id, b.stitch_id)
    ELSE IF a.chembl_id # b.chembl_id THEN StrLess(a.chembl_id, b.chembl_id)
    ELSE StrLess(a.umls_cui, b.umls_cui)
RECURSIVE InsertRow(_, _)
InsertRow(x, rows) ==
    IF rows = <<>> THEN <<x>>
    ELSE IF RowBefore(x, Head(rows)) THEN <<x>> \o rows
    ELSE <<Head(rows)>> \o InsertRow(x, Tail(rows))
RECURSIVE sort_values(_)
sort_values(rows) ==
    IF rows = <<>> THEN <<>>
    ELSE InsertRow(rows[Len(rows)], sort_values(SubSeq(rows, 1, Len(rows) - 1)))

\* lines 125-130: the rows whose chembl_id is a phase-4 id
filter_phase4(rows, p4) ==
    LET p4_ids == { PyStrip(AsTypeStr(p4[i].chembl_id)) : i \in 1..Len(p4) }
    IN  SelectSeq(rows, LAMBDA r : r.chembl_id \in p4_ids)

\* lines 53-59
LoadSiderEdges ==
    /\ spc = "start"
    /\ edges' = load_edges(SIDER_EDGES)
    /\ spc' = "edges_loaded"
    /\ UNCHANGED <<SIDER_EDGES, UNICHEM_CHEMBL_TO_PUBCHEM, CHEMBL_PHASE4, uc, map_full,
                   OUT_MAP_FULL, OUT_MAP_PHASE4>>
    /\ UNCHANGED <<hetVars, evVars, cidVars, extractVars, drugbankVars, uniprotVars>>

\* lines 67-92: a missing UniChem file raises FileNotFoundError
LoadUniChem ==
    /\ spc = "edges_loaded"
    /\ IF ~UNICHEM_CHEMBL_TO_PUBCHEM.exists
       THEN spc' = "error" /\ uc' = uc
       ELSE spc' = "uc_loaded" /\ uc' = load_unichem(UNICHEM_CHEMBL_TO_PUBCHEM.rows)
    /\ UNCHANGED <<SIDER_EDGES, UNICHEM_CHEMBL_TO_PUBCHEM, CHEMBL_PHASE4, edges, map_full,
                   OUT_MAP_FULL, OUT_MAP_PHASE4>>
    /\ UNCHANGED <<hetVars, evVars, cidVars, extractVars, drugbankVars, uniprotVars>>

\* lines 100-118: join, select, drop_duplicates, sort, to_csv
JoinAndWriteFull ==
    /\ spc = "uc_loaded"
    /\ map_full' = sort_values(drop_duplicates(select_cols(merge_on_pubchem_cid(edges, uc))))
    /\ OUT_MAP_FULL' = Written(map_full')
    /\ spc' = "full_written"
    /\ UNCHANGED <<SIDER_EDGES, UNICHEM_CHEMBL_TO_PUBCHEM, CHEMBL_PHASE4, edges, uc,
                   OUT_MAP_PHASE4>>
    /\ UNCHANGED <<hetVars, evVars, cidVars, extractVars, drugbankVars, uniprotVars>>

\* (variant: the phase-4 file is required)
FilterPhase4Required ==
    /\ spc = "full_written"
    /\ IF CHEMBL_PHASE4.exists
       THEN /\ OUT_MAP_PHASE4' = Written(filter_phase4(map_full, CHEMBL_PHASE4.rows))
            /\ spc' = "done"
       ELSE /\ OUT_MAP_PHASE4' = OUT_MAP_PHASE4
            /\ spc' = "error"
    /\ UNCHANGED <<SIDER_EDGES, UNICHEM_CHEMBL_TO_PUBCHEM, CHEMBL_PHASE4, edges, uc,
                   map_full, OUT_MAP_FULL>>
    /\ UNCHANGED <<hetVars, evVars, cidVars, extractVars, drugbankVars, uniprotVars>>

\* lines 122-138: the phase-4 filter, skipped when its file is missing
FilterPhase4 ==
    /\ spc = "full_written"
    /\ IF CHEMBL_PHASE4.exists
       THEN OUT_MAP_PHASE4' = Written(filter_phase4(map_full, CHEMBL_PHASE4.rows))
       ELSE OUT_MAP_PHASE4' = OUT_MAP_PHASE4
    /\ spc' = "done"
    /\ UNCHANGED <<SIDER_EDGES, UNICHEM_CHEMBL_TO_PUBCHEM, CHEMBL_PHASE4, edges, uc,
                   map_full, OUT_MAP_FULL>>
    /\ UNCHANGED <<hetVars, evVars, cidVars, extractVars, drugbankVars, uniprotVars>>

InitSider ==
    \* Rows may repeat: the frequency columns, which the script carries but
    \* never reads, tell them apart in the file.
    /\ SIDER_EDGES \in SeqsUpTo([stitch_id : SiderStitchIds, umls_cui : {"C1", "C2"}], MaxRows)
    /\ UNICHEM_CHEMBL_TO_PUBCHEM \in
           {NoFile} \cup { File(rows) : rows \in SeqsUpTo(UniChemPubchemRows, MaxRows) }
    /\ CHEMBL_PHASE4 \in {NoFile, File(<<[chembl_id |-> "CHEMBL1"]>>),
                          File(<<[chembl_id |-> " CHEMBL2"]>>)}
    /\ edges = <<>> /\ uc = <<>> /\ map_full = <<>>
    /\ OUT_MAP_FULL = NotWritten /\ OUT_MAP_PHASE4 = NotWritten
    /\ spc = "start"

IdleSider ==
    /\ SIDER_EDGES = <<>> /\ UNICHEM_CHEMBL_TO_PUBCHEM = NoFile /\ CHEMBL_PHASE4 = NoFile
    /\ edges = <<>> /\ uc = <<>> /\ map_full = <<>>
    /\ OUT_MAP_FULL = NotWritten /\ OUT_MAP_PHASE4 = NotWritten
    /\ spc = "idle"


----------------------------------------------------------------------------
(* map_chembl_to_drugbank_unichem_dump.py *)

\* src1src2.txt: its header, and its rows
MapFile(cols, rows) == [columns |-> cols, rows |-> rows]
DrugbankMapFiles ==
    { MapFile({"chembl_id", "drugbank_id"}, rows) : rows \in SeqsUpTo([chembl_id : {"CHEMBL1", "CHEMBL2 ", ""},
                          drugbank_id : {"DB1", " DB2"}], MaxRows) }
    \cup { MapFile({"From src:'1'", "To src:'2'"}, <<>>) }

\* (variant: the seed ids are not stripped)
clean_drugs_unstripped(cells) ==
    drop_duplicates([i \in 1..Len(cells) |-> AsTypeStr(cells[i])])
\* lines 33-34: astype(str), strip, drop_duplicates(subset=["chembl_id"])
clean_drugs(cells) ==
    drop_duplicates([i \in 1..Len(cells) |-> PyStrip(AsTypeStr(cells[i]))])

\* lines 48-49
clean_map(rows) ==
    [i \in 1..Len(rows) |->
        [chembl_id |-> PyStrip(AsTypeStr(rows[i].chembl_id)),
         drugbank_id |-> PyStrip(AsTypeStr(rows[i].drugbank_id))]]

\* df_drugs.merge(df_map, on="chembl_id", how="inner")
RECURSIVE merge_on_chembl_id(_, _)
merge_on_chembl_id(left, right) ==
    IF left = <<>> THEN <<>>
    ELSE SelectSeq(right, LAMBDA r : r.chembl_id = Head(left))
         \o merge_on_chembl_id(Tail(left), right)

\* lines 64-66
missing_of(drugs, pairs) ==
    LET mapped_ids == { pairs[i].chembl_id : i \in 1..Len(pairs) }
        all_ids == RowSet(drugs)
        missing == all_ids \ mapped_ids
    IN  PySorted(SelectSeq(drop_duplicates(drugs), LAMBDA c : c \in missing))

\* lines 32-34
LoadDrugs ==
    /\ dpc = "start"
    /\ df_drugs' = clean_drugs(PHASE4)
    /\ dpc' = "drugs_loaded"
    /\ UNCHANGED <<PHASE4, UNICHEM_MAP, df_map, merged, missing_ids, OUT_MAP, OUT_MISS>>
    /\ UNCHANGED <<hetVars, evVars, cidVars, extractVars, siderVars, uniprotVars>>

\* lines 41-49: a header without the two columns raises ValueError
LoadMap ==
    /\ dpc = "drugs_loaded"
    /\ IF ~({"chembl_id", "drugbank_id"} \subseteq UNICHEM_MAP.columns)
       THEN dpc' = "error" /\ df_map' = df_map
       ELSE dpc' = "map_loaded" /\ df_map' = clean_map(UNICHEM_MAP.rows)
    /\ UNCHANGED <<PHASE4, UNICHEM_MAP, df_drugs, merged, missing_ids, OUT_MAP, OUT_MISS>>
    /\ UNCHANGED <<hetVars, evVars, cidVars, extractVars, siderVars, uniprotVars>>

\* lines 56-66
MergeDrugbank ==
    /\ dpc = "map_loaded"
    /\ merged' = drop_duplicates(merge_on_chembl_id(df_drugs, df_map))
    /\ missing_ids' = missing_of(df_drugs, merged')
    /\ dpc' = "merged"
    /\ UNCHANGED <<PHASE4, UNICHEM_MAP, df_drugs, df_map, OUT_MAP, OUT_MISS>>
    /\ UNCHANGED <<hetVars, evVars, cidVars, extractVars, siderVars, uniprotVars>>

\* lines 71-73
SaveDrugbank ==
    /\ dpc = "merged"
    /\ OUT_MAP' = Written(merged)
    /\ OUT_MISS' = Written(missing_ids)
    /\ dpc' = "done"
    /\ UNCHANGED <<PHASE4, UNICHEM_MAP, df_drugs, df_map, merged, missing_ids>>
    /\ UNCHANGED <<hetVars, evVars, cidVars, extractVars, siderVars, uniprotVars>>

InitDrugbank ==
    /\ PHASE4 \in SeqsUpTo({"CHEMBL1", " CHEMBL1", "CHEMBL2", ""}, MaxRows)
    /\ UNICHEM_MAP \in DrugbankMapFiles
    /\ df_drugs = <<>> /\ df_map = <<>> /\ merged = <<>> /\ missing_ids = <<>>
    /\ OUT_MAP = NotWritten /\ OUT_MISS = NotWritten
    /\ dpc = "start"

IdleDrugbank ==
    /\ PHASE4 = <<>> /\ UNICHEM_MAP = MapFile({}, <<>>)
    /\ df_drugs = <<>> /\ df_map = <<>> /\ merged = <<>> /\ missing_ids = <<>>
    /\ OUT_MAP = NotWritten /\ OUT_MISS = NotWritten
    /\ dpc = "idle"


----------------------------------------------------------------------------
(* map_uniprot_to_entrez.py *)

\* Lines of idmapping.dat.gz, split on tabs
IdMappingRows ==
    { <<"P1", "GeneID", "1">>, <<"P1", "GeneID", "2">>, <<"P1", "RefSeq", "1">>,
      <<"P3", "GeneID", "3">>, <<"P2", "GeneID">> }

\* lines 28-29: strip, dropna, unique
targets_of(cells) == { PyStrip(cells[i]) : i \in { j \in 1..Len(cells) : cells[j] # "" } }

\* lines 37-45: the loop over the rows of the dump
RECURSIVE stream(_, _)
stream(rows, targets) ==
    IF rows = <<>> THEN <<>>
    ELSE LET row == Head(rows) IN
         (IF Len(row) # 3 THEN <<>>
          ELSE IF row[2] = "GeneID" /\ row[1] \in targets
               THEN <<[uniprot |-> row[1], entrez_id |-> row[3]]>>
               ELSE <<>>)
         \o stream(Tail(rows), targets)

\* lines 27-29
LoadTargets ==
    /\ upc = "start"
    /\ target_uniprots' = targets_of(TARGETS)
    /\ upc' = "targets_loaded"
    /\ UNCHANGED <<TARGETS, UNIPROT_INPUT, mapping, OUT>>
    /\ UNCHANGED <<hetVars, evVars, cidVars, extractVars, siderVars, drugbankVars>>

\* lines 33-45
StreamMapping ==
    /\ upc = "targets_loaded"
    /\ mapping' = stream(UNIPROT_INPUT, target_uniprots)
    /\ upc' = "streamed"
    /\ UNCHANGED <<TARGETS, UNIPROT_INPUT, target_uniprots, OUT>>
    /\ UNCHANGED <<hetVars, evVars, cidVars, extractVars, siderVars, drugbankVars>>

\* lines 50-54
SaveEntrez ==
    /\ upc = "streamed"
    /\ OUT' = Written(drop_duplicates(mapping))
    /\ upc' = "done"
    /\ UNCHANGED <<TARGETS, UNIPROT_INPUT, target_uniprots, mapping>>
    /\ UNCHANGED <<hetVars, evVars, cidVars, extractVars, siderVars, drugbankVars>>

InitUniprot ==
    /\ TARGETS \in SeqsUpTo({"P1", " P1", "P2", ""}, MaxRows)
    /\ UNIPROT_INPUT \in SeqsUpTo(IdMappingRows, MaxRows)
    /\ target_uniprots = {} /\ mapping = <<>> /\ OUT = NotWritten
    /\ upc = "start"

IdleUniprot ==
    /\ TARGETS = <<>> /\ UNIPROT_INPUT = <<>>
    /\ target_uniprots = {} /\ mapping = <<>> /\ OUT = NotWritten
    /\ upc = "idle"


----------------------------------------------------------------------------
(* extract_chembl_sqlite_cli.py: the database *)

\* SQL values are None (NULL), PStr and PInt. A table whose rows SQL returns
\* in no specified order is the set of its rows; molecule_synonyms, whose row
\* order the synonym helper could depend on, is a sequence.

\* The most molecules (molregno 1..MaxMolregno) and synonym rows.
MaxMolregno == 2
MaxSynRows == 2

MolRow(molregno, chembl_id, pref_name, max_phase) ==
    [molregno |-> molregno, chembl_id |-> chembl_id, pref_name |-> pref_name,
     max_phase |-> max_phase]
\* molregno is the primary key of molecule_dictionary; chembl_id, pref_name
\* and max_phase are data.
FirstMolecules ==
    { MolRow(1, PStr("CHEMBL1"), n, PInt(4)) : n \in {PStr("ASPIRIN"), None, PStr("")} }
OtherMolecules(k) ==
    { MolRow(k, PStr("CHEMBL2"), None, PInt(3)),
      MolRow(k, None, PStr("X"), PInt(4)),
      MolRow(k, PStr("CHEMBL1"), PStr("ASA"), PInt(4)),
      MolRow(k, PStr("CHEMBL2"), PStr("IBUPROFEN"), None),
      MolRow(k, PStr("CHEMBL2"), None, PInt(0)) }
\* The molecule_dictionary tables: at most one row for each molregno.
RECURSIVE MoleculeTables(_)
MoleculeTables(n) ==
    IF n = 0 THEN {{}}
    ELSE { t \cup r : t \in MoleculeTables(n - 1),
                      r \in {{}} \cup { {x} : x \in (IF n = 1 THEN FirstMolecules ELSE OtherMolecules(n)) } }

SynRow(molregno, synonyms) == [molregno |-> molregno, synonyms |-> synonyms]
SynonymRows ==
    { SynRow(1, PStr("B")), SynRow(1, PStr("A")), SynRow(1, None), SynRow(1, PStr("")),
      SynRow(2, PStr("C")) }

\* drug_mechanism, target_dictionary, target_components, component_sequences:
\* molecule 1 acts on a single protein, molecule 2 on a complex that holds the
\* same protein.
DrugMechanism ==
    { [molregno |-> 1, molecule_chembl_id |-> PStr("CHEMBL1"), tid |-> 10,
       target_chembl_id |-> PStr("CHEMBL210"), mechanism_of_action |-> PStr("COX inhibitor"),
       action_type |-> PStr("INHIBITOR")],
      [molregno |-> 2, molecule_chembl_id |-> PStr("CHEMBL2"), tid |-> 11,
       target_chembl_id |-> PStr("CHEMBL211"), mechanism_of_action |-> PStr("COX inhibitor"),
       action_type |-> None] }
TargetDictionary ==
    { [tid |-> 10, chembl_id |-> PStr("CHEMBL210"), pref_name |-> PStr("COX-1")],
      [tid |-> 11, chembl_id |-> PStr("CHEMBL211"), pref_name |-> PStr("COX")] }
TargetComponents ==
    { [tid |-> 10, component_id |-> 100], [tid |-> 11, component_id |-> 100],
      [tid |-> 11, component_id |-> 101] }
ComponentSequences ==
    { [component_id |-> 100, accession |-> PStr("P23219")],
      [component_id |-> 101, accession |-> None] }

\* The columns PRAGMA table_info can report for the three introspected tables
TdKeyCols == {"tid", "chembl_id", "target_chembl_id"}
DmKeyCols == {"tid", "target_chembl_id", "molregno", "molecule_chembl_id"}
MdKeyCols == {"molregno", "chembl_id"}

Database(td_cols, dm_cols, md_cols, has_syn, md, ms) ==
    [td_cols |-> td_cols, dm_cols |-> dm_cols, md_cols |-> md_cols,
     has_syn |-> has_syn, md |-> md, ms |-> ms]
\* Databases of the ChEMBL schema, with any molecules and synonyms
FullSchemaDatabases ==
    { Database(TdKeyCols \ {"target_chembl_id"}, DmKeyCols \ {"target_chembl_id", "molecule_chembl_id"},
               MdKeyCols, TRUE, md, ms) :
        md \in MoleculeTables(MaxMolregno), ms \in SeqsUpTo(SynonymRows, MaxSynRows) }
    \cup { Database(TdKeyCols \ {"target_chembl_id"}, DmKeyCols \ {"target_chembl_id", "molecule_chembl_id"},
                    MdKeyCols, FALSE, md, <<>>) :
        md \in MoleculeTables(MaxMolregno) }
\* Databases of any schema, with two molecules and one synonym
AnySchemaDatabases ==
    { Database(td, dm, md, TRUE,
               {MolRow(1, PStr("CHEMBL1"), None, PInt(4)), MolRow(2, PStr("CHEMBL2"), None, PInt(3))},
               <<SynRow(1, PStr("A"))>>) :
        td \in SUBSET TdKeyCols, dm \in SUBSET DmKeyCols, md \in SUBSET MdKeyCols }

----------------------------------------------------------------------------
(* extract_chembl_sqlite_cli.py: main *)

NoJoin == ""

DmTdError == "Cannot determine join between drug_mechanism and target_dictionary"
DmMdError == "Cannot determine join between drug_mechanism and molecule_dictionary"
\* sqlite3.OperationalError (no such column), raised through pandas.read_sql
SqlError == "DatabaseError"

\* (variant: the numeric predicate is the default where nothing applies)
resolve_dm_td_default(dm_cols, td_cols) ==
    IF "tid" \in dm_cols /\ "tid" \in td_cols THEN "td.tid = dm.tid"
    ELSE IF "target_chembl_id" \in dm_cols
            /\ ("chembl_id" \in td_cols \/ "target_chembl_id" \in td_cols)
         THEN IF "chembl_id" \in td_cols THEN "td.chembl_id = dm.target_chembl_id"
              ELSE "td.target_chembl_id = dm.target_chembl_id"
    ELSE "td.tid = dm.tid"
\* lines 52-58: the predicate, or NoJoin where the code raises
resolve_dm_td(dm_cols, td_cols) ==
    IF "tid" \in dm_cols /\ "tid" \in td_cols THEN "td.tid = dm.tid"
    ELSE IF "target_chembl_id" \in dm_cols
            /\ ("chembl_id" \in td_cols \/ "target_chembl_id" \in td_cols)
         THEN IF "chembl_id" \in td_cols THEN "td.chembl_id = dm.target_chembl_id"
              ELSE "td.target_chembl_id = dm.target_chembl_id"
    ELSE NoJoin

\* (variant: the natural key is tried before the numeric key)
resolve_dm_md_natural_first(dm_cols, md_cols) ==
    IF "molecule_chembl_id" \in dm_cols /\ "chembl_id" \in md_cols
    THEN "md.chembl_id = dm.molecule_chembl_id"
    ELSE IF "molregno" \in dm_cols /\ "molregno" \in md_cols THEN "md.molregno = dm.molregno"
    ELSE NoJoin
\* lines 61-66
resolve_dm_md(dm_cols, md_cols) ==
    IF "molregno" \in dm_cols /\ "molregno" \in md_cols THEN "md.molregno = dm.molregno"
    ELSE IF "molecule_chembl_id" \in dm_cols /\ "chembl_id" \in md_cols
         THEN "md.chembl_id = dm.molecule_chembl_id"
    ELSE NoJoin

\* SQL "a = b" is true: neither side is NULL and the values are equal
SqlEq(a, b) == ~IsNone(a) /\ ~IsNone(b) /\ a = b

\* the ON clauses, evaluated on a row of each table
DmTdOn(join, d, t) ==
    IF join = "td.tid = dm.tid" THEN t.tid = d.tid
    ELSE SqlEq(t.chembl_id, d.target_chembl_id)
DmMdOn(join, d, m) ==
    IF join = "md.molregno = dm.molregno" THEN m.molregno = d.molregno
    ELSE SqlEq(m.chembl_id, d.molecule_chembl_id)

\* (variant: a NULL max_phase passes the filter)
where_phase_null_passes(phase, m) ==
    CASE phase = "4" -> IsNone(m.max_phase) \/ m.max_phase.v = 4
      [] phase = "1-4" -> IsNone(m.max_phase) \/ (m.max_phase.v >= 1 /\ m.max_phase.v <= 4)
      [] OTHER -> TRUE
\* lines 84-89: where_phase, evaluated on a molecule_dictionary row
where_phase(phase, m) ==
    CASE phase = "4" -> ~IsNone(m.max_phase) /\ m.max_phase.v = 4
      [] phase = "1-4" -> ~IsNone(m.max_phase) /\ m.max_phase.v >= 1 /\ m.max_phase.v <= 4
      [] OTHER -> TRUE

\* (variant: the synonym of the first row the table returns)
first_synonym(ms, k) ==
    LET own == SelectSeq(ms, LAMBDA r : r.molregno = k) IN own[1].synonyms
\* MIN(ms.synonyms) of one group: the smallest non-NULL value in BINARY
\* collation, NULL when there is none
min_synonym(ms, k) ==
    LET vals == { ms[i].synonyms : i \in { j \in 1..Len(ms) : ms[j].molregno = k } } \ {None}
    IN  IF vals = {} THEN None
        ELSE CHOOSE x \in vals : \A y \in vals : y = x \/ StrLess(x.v, y.v)

\* lines 73-78: q_syn read and stored as _tmp_syn
build_tmp_syn(ms) ==
    { [molregno |-> k, syn |-> min_synonym(ms, k)] : k \in { ms[i].molregno : i \in 1..Len(ms) } }

\* COALESCE
Coalesce(values) ==
    IF \A i \in 1..Len(values) : IsNone(values[i]) THEN None
    ELSE values[CHOOSE i \in 1..Len(values) :
                    ~IsNone(values[i]) /\ \A j \in 1..(i - 1) : IsNone(values[j])]

\* LEFT JOIN _tmp_syn s ON s.molregno = md.molregno: s.syn for a molecule row
syn_of(tmp, m) ==
    IF \E s \in tmp : s.molregno = m.molregno
    THEN (CHOOSE s \in tmp : s.molregno = m.molregno).syn
    ELSE None

\* lines 70 and 80: name_expr, evaluated on a molecule row
name_of(expr, tmp, m) ==
    IF expr = "COALESCE(md.pref_name, s.syn, md.chembl_id)"
    THEN Coalesce(<<m.pref_name, syn_of(tmp, m), m.chembl_id>>)
    ELSE Coalesce(<<m.pref_name, m.chembl_id>>)

\* lines 92-100: q_drugs and drop_duplicates
q_drugs(db, phase, expr, tmp) ==
    { [chembl_id |-> m.chembl_id, name |-> name_of(expr, tmp, m)] :
        m \in { x \in db.md : ~IsNone(x.chembl_id) /\ where_phase(phase, x) } }

\* lines 104-123: q_edges
q_edges(db, phase, md_join, td_join) ==
    { [chembl_id |-> j[2].chembl_id, uniprot |-> j[5].accession,
       mechanism |-> j[1].mechanism_of_action, action_type |-> j[1].action_type] :
        j \in { k \in DrugMechanism \X db.md \X TargetDictionary \X TargetComponents
                        \X ComponentSequences :
                  /\ DmMdOn(md_join, k[1], k[2])
                  /\ DmTdOn(td_join, k[1], k[3])
                  /\ k[4].tid = k[3].tid
                  /\ k[5].component_id = k[4].component_id
                  /\ ~IsNone(k[2].chembl_id)
                  /\ ~IsNone(k[5].accession)
                  /\ where_phase(phase, k[2]) } }

\* lines 132-138: the accession and name of every target component
q_target_names ==
    { [uniprot |-> j[3].accession, target_name |-> j[1].pref_name] :
        j \in { k \in TargetDictionary \X TargetComponents \X ComponentSequences :
                  k[2].tid = k[1].tid /\ k[3].component_id = k[2].component_id } }

\* lines 128-142: the accessions of the edges, left-merged with the names,
\* a missing name filled with ""
build_targets(edge_rows) ==
    LET uniprots == { r.uniprot : r \in edge_rows }
        named(u) == { n \in q_target_names : n.uniprot = u }
        fill(v) == IF IsNone(v) THEN PStr("") ELSE v
    IN  UNION { IF named(u) = {} THEN { [uniprot |-> u, target_name |-> PStr("")] }
                ELSE { [uniprot |-> u, target_name |-> fill(n.target_name)] : n \in named(u) }
                : u \in uniprots }

\* An output table: whether to_csv has written it, and its rows
Table(rows) == [written |-> TRUE, rows |-> rows]
NoTable == [written |-> FALSE, rows |-> {}]

\* lines 47-58: a RuntimeError where no predicate applies
ResolveDmTd ==
    /\ xpc = "start"
    /\ dm_td_join' = resolve_dm_td(con.dm_cols, con.td_cols)
    /\ IF dm_td_join' = NoJoin
       THEN xerror' = DmTdError /\ xpc' = "error"
       ELSE xerror' = xerror /\ xpc' = "td_resolved"
    /\ UNCHANGED <<args, con, dm_md_join, name_expr, tmp_syn, NODES_DRUG,
                   EDGES_DRUG_TARGETS, NODES_TARGET>>
    /\ UNCHANGED <<hetVars, evVars, cidVars, chainVars, nodeVars>>

\* lines 61-66
ResolveDmMd ==
    /\ xpc = "td_resolved"
    /\ dm_md_join' = resolve_dm_md(con.dm_cols, con.md_cols)
    /\ IF dm_md_join' = NoJoin
       THEN xerror' = DmMdError /\ xpc' = "error"
       ELSE xerror' = xerror /\ xpc' = "md_resolved"
    /\ UNCHANGED <<args, con, dm_td_join, name_expr, tmp_syn, NODES_DRUG,
                   EDGES_DRUG_TARGETS, NODES_TARGET>>
    /\ UNCHANGED <<hetVars, evVars, cidVars, chainVars, nodeVars>>

\* lines 69-80
SynonymHelper ==
    /\ xpc = "md_resolved"
    /\ IF args.fill_synonyms /\ con.has_syn
       THEN /\ tmp_syn' = build_tmp_syn(con.ms)
            /\ name_expr' = "COALESCE(md.pref_name, s.syn, md.chembl_id)"
       ELSE /\ tmp_syn' = tmp_syn
            /\ name_expr' = "COALESCE(md.pref_name, md.chembl_id)"
    /\ xpc' = "names_ready"
    /\ UNCHANGED <<args, con, dm_td_join, dm_md_join, NODES_DRUG, EDGES_DRUG_TARGETS,
                   NODES_TARGET, xerror>>
    /\ UNCHANGED <<hetVars, evVars, cidVars, chainVars, nodeVars>>

\* The columns of molecule_dictionary that q_drugs names
DrugQueryCols ==
    {"chembl_id"} \cup
    (IF name_expr = "COALESCE(md.pref_name, s.syn, md.chembl_id)" THEN {"molregno"} ELSE {})

\* lines 92-101: the query fails on a column the table does not have
WriteDrugNodes ==
    /\ xpc = "names_ready"
    /\ IF DrugQueryCols \subseteq con.md_cols
       THEN /\ NODES_DRUG' = Table(q_drugs(con, args.phase, name_expr, tmp_syn))
            /\ xerror' = xerror /\ xpc' = "drugs_written"
       ELSE /\ NODES_DRUG' = NODES_DRUG
            /\ xerror' = SqlError /\ xpc' = "error"
    /\ UNCHANGED <<args, con, dm_td_join, dm_md_join, name_expr, tmp_syn,
                   EDGES_DRUG_TARGETS, NODES_TARGET>>
    /\ UNCHANGED <<hetVars, evVars, cidVars, chainVars, nodeVars>>

\* lines 104-124: tc.tid = td.tid is joined on whichever predicate was chosen
WriteEdges ==
    /\ xpc = "drugs_written"
    /\ IF "tid" \in con.td_cols
       THEN /\ EDGES_DRUG_TARGETS' = Table(q_edges(con, args.phase, dm_md_join, dm_td_join))
            /\ xerror' = xerror /\ xpc' = "edges_written"
       ELSE /\ EDGES_DRUG_TARGETS' = EDGES_DRUG_TARGETS
            /\ xerror' = SqlError /\ xpc' = "error"
    /\ UNCHANGED <<args, con, dm_td_join, dm_md_join, name_expr, tmp_syn, NODES_DRUG,
                   NODES_TARGET>>
    /\ UNCHANGED <<hetVars, evVars, cidVars, chainVars, nodeVars>>

\* lines 128-143
WriteTargetNodes ==
    /\ xpc = "edges_written"
    /\ NODES_TARGET' = Table(build_targets(EDGES_DRUG_TARGETS.rows))
    /\ xpc' = "done"
    /\ UNCHANGED <<args, con, dm_td_join, dm_md_join, name_expr, tmp_syn, NODES_DRUG,
                   EDGES_DRUG_TARGETS, xerror>>
    /\ UNCHANGED <<hetVars, evVars, cidVars, chainVars, nodeVars>>

InitChembl ==
    /\ args \in [phase : {"all", "4", "1-4"}, fill_synonyms : BOOLEAN]
    /\ con \in FullSchemaDatabases \cup AnySchemaDatabases
    /\ dm_td_join = NoJoin /\ dm_md_join = NoJoin /\ name_expr = "" /\ tmp_syn = {}
    /\ NODES_DRUG = NoTable /\ EDGES_DRUG_TARGETS = NoTable /\ NODES_TARGET = NoTable
    /\ xerror = "" /\ xpc = "start"

IdleChembl ==
    /\ args = [phase |-> "all", fill_synonyms |-> FALSE]
    /\ con = Database({}, {}, {}, FALSE, {}, <<>>)
    /\ dm_td_join = NoJoin /\ dm_md_join = NoJoin /\ name_expr = "" /\ tmp_syn = {}
    /\ NODES_DRUG = NoTable /\ EDGES_DRUG_TARGETS = NoTable /\ NODES_TARGET = NoTable
    /\ xerror = "" /\ xpc = "idle"


----------------------------------------------------------------------------
(* hetionet_extract_to_csv.py: the node loop *)

\* The most nodes the document holds.
MaxNodes == 2

KEEP_KINDS == {"Compound", "Gene", "Disease", "Side Effect"}

\* A node of the decoded document; name may be absent.
RawNodes ==
    [kind : NodeKinds, identifier : {PStr("DB1"), PInt(1)}, name : {PStr("a"), PStr("b"), Absent}]

\* n.get("name", "")
name_of_node(n) == IF n.name = Absent THEN "" ELSE n.name.v

NodeRow(n) == [id |-> PyStr(n.identifier), name |-> name_of_node(n)]

\* lines 76-94: one iteration of "for n in nodes"
NodeLoop ==
    /\ npc = "loop"
    /\ node_i <= Len(nodes)
    /\ LET n == nodes[node_i] IN
        /\ compound_rows' = IF n.kind \in KEEP_KINDS /\ n.kind = "Compound"
                            THEN Append(compound_rows, NodeRow(n)) ELSE compound_rows
        /\ gene_rows' = IF n.kind \in KEEP_KINDS /\ n.kind = "Gene"
                        THEN Append(gene_rows, NodeRow(n)) ELSE gene_rows
        /\ disease_rows' = IF n.kind \in KEEP_KINDS /\ n.kind = "Disease"
                           THEN Append(disease_rows, NodeRow(n)) ELSE disease_rows
        /\ se_rows' = IF n.kind \in KEEP_KINDS /\ n.kind = "Side Effect"
                      THEN Append(se_rows, NodeRow(n)) ELSE se_rows
    /\ node_i' = node_i + 1
    /\ UNCHANGED <<nodes, node_csv, npc>>
    /\ UNCHANGED <<hetVars, evVars, cidVars, chainVars, chemblVars, siderNodeVars>>

\* lines 96-99: DataFrame(rows).drop_duplicates().to_csv, for the four lists
WriteNodeCsvs ==
    /\ npc = "loop"
    /\ node_i > Len(nodes)
    /\ node_csv' = [written |-> TRUE,
                    nodes_compound |-> drop_duplicates(compound_rows),
                    nodes_gene |-> drop_duplicates(gene_rows),
                    nodes_disease |-> drop_duplicates(disease_rows),
                    nodes_sideeffect |-> drop_duplicates(se_rows)]
    /\ npc' = "done"
    /\ UNCHANGED <<nodes, node_i, compound_rows, gene_rows, disease_rows, se_rows>>
    /\ UNCHANGED <<hetVars, evVars, cidVars, chainVars, chemblVars, siderNodeVars>>

NoNodeCsv == [written |-> FALSE, nodes_compound |-> <<>>, nodes_gene |-> <<>>,
              nodes_disease |-> <<>>, nodes_sideeffect |-> <<>>]

InitHetNodes ==
    /\ nodes \in SeqsUpTo(RawNodes, MaxNodes)
    /\ node_i = 1
    /\ compound_rows = <<>> /\ gene_rows = <<>> /\ disease_rows = <<>> /\ se_rows = <<>>
    /\ node_csv = NoNodeCsv
    /\ npc = "loop"

IdleHetNodes ==
    /\ nodes = <<>> /\ node_i = 1
    /\ compound_rows = <<>> /\ gene_rows = <<>> /\ disease_rows = <<>> /\ se_rows = <<>>
    /\ node_csv = NoNodeCsv
    /\ npc = "idle"


----------------------------------------------------------------------------
(* extract_sider.py *)

\* Rows of meddra_all_se.tsv and of meddra_freq.tsv, the columns the script uses
AllSeRows ==
    [stitch_id : {"CID1"}, umls_cui : {"C1", "C2"}, side_effect_name : {"Nausea", "Vomiting"}]
FreqRows ==
    [stitch_id : {"CID1"}, umls_cui : {"C1"}, frequency_lower : {"0.1", "0.2"},
     frequency_upper : {"0.3"}]

\* line 24: all_se[["stitch_id","umls_cui"]].drop_duplicates()
se_edges(all_se) ==
    drop_duplicates([i \in 1..Len(all_se) |->
        [stitch_id |-> AsTypeStr(all_se[i].stitch_id), umls_cui |-> AsTypeStr(all_se[i].umls_cui)]])

\* line 34: edges.merge(freq, on=["stitch_id","umls_cui"], how="left")
RECURSIVE merge_freq(_, _)
merge_freq(left, freq) ==
    IF left = <<>> THEN <<>>
    ELSE LET l == Head(left)
             hits == SelectSeq(freq, LAMBDA f : f.stitch_id = l.stitch_id /\ f.umls_cui = l.umls_cui)
         IN  (IF hits = <<>>
              THEN <<[stitch_id |-> l.stitch_id, umls_cui |-> l.umls_cui,
                      frequency_lower |-> "", frequency_upper |-> ""]>>
              ELSE hits)
             \o merge_freq(Tail(left), freq)

\* lines 37-39: all_se[["umls_cui","side_effect_name"]].drop_duplicates().rename
se_nodes_of(all_se) ==
    drop_duplicates([i \in 1..Len(all_se) |->
        [umls_cui |-> AsTypeStr(all_se[i].umls_cui), name |-> all_se[i].side_effect_name]])

\* lines 19-43: the whole script
ExtractSider ==
    /\ sxpc = "start"
    /\ NODES_SIDE_EFFECT_SIDER' = Written(se_nodes_of(ALL_SE))
    /\ EDGES_STITCH' = Written(merge_freq(se_edges(ALL_SE), drop_duplicates(FREQ)))
    /\ sxpc' = "done"
    /\ UNCHANGED <<ALL_SE, FREQ>>
    /\ UNCHANGED <<hetVars, evVars, cidVars, chainVars, chemblVars, hetNodeVars>>

InitSiderNodes ==
    /\ ALL_SE \in SeqsUpTo(AllSeRows, MaxRows)
    /\ FREQ \in SeqsUpTo(FreqRows, MaxRows)
    /\ NODES_SIDE_EFFECT_SIDER = NotWritten /\ EDGES_STITCH = NotWritten
    /\ sxpc = "start"

IdleSiderNodes ==
    /\ ALL_SE = <<>> /\ FREQ = <<>>
    /\ NODES_SIDE_EFFECT_SIDER = NotWritten /\ EDGES_STITCH = NotWritten
    /\ sxpc = "idle"

\* None of the extraction programs is run.
IdleExtract == IdleChembl /\ IdleHetNodes /\ IdleSiderNodes

----------------------------------------------------------------------------
(* One run of one of the three mapping scripts *)

IdleChains == IdleSider /\ IdleDrugbank /\ IdleUniprot

InitChains ==
    /\ \/ InitSider /\ IdleDrugbank /\ IdleUniprot
       \/ IdleSider /\ InitDrugbank /\ IdleUniprot
       \/ IdleSider /\ IdleDrugbank /\ InitUniprot
    /\ IdleHet /\ IdleEv /\ IdleCid /\ IdleExtract
NextChains ==
    \/ LoadSiderEdges \/ LoadUniChem \/ JoinAndWriteFull \/ FilterPhase4
    \/ LoadDrugs \/ LoadMap \/ MergeDrugbank \/ SaveDrugbank
    \/ LoadTargets \/ StreamMapping \/ SaveEntrez
SpecChains == InitChains /\ [][NextChains]_vars

----------------------------------------------------------------------------
(* One run of one of the three extraction programs *)

InitExtract ==
    /\ \/ InitChembl /\ IdleHetNodes /\ IdleSiderNodes
       \/ IdleChembl /\ InitHetNodes /\ IdleSiderNodes
       \/ IdleChembl /\ IdleHetNodes /\ InitSiderNodes
    /\ IdleHet /\ IdleEv /\ IdleCid /\ IdleChains
NextExtract ==
    \/ ResolveDmTd \/ ResolveDmMd \/ SynonymHelper
    \/ WriteDrugNodes \/ WriteEdges \/ WriteTargetNodes
    \/ NodeLoop \/ WriteNodeCsvs
    \/ ExtractSider
SpecExtract == InitExtract /\ [][NextExtract]_vars

----------------------------------------------------------------------------
(* The other specifications: one program at a time *)

\* The edge loop of hetionet_extract_to_csv.py
Init == InitHet /\ IdleEv /\ IdleCid /\ IdleChains /\ IdleExtract
Spec == Init /\ [][NextEdge \/ ProcessEdge \/ WriteEdgeCsvs]_vars

\* evidence_string
EvInit == InitEv /\ IdleHet /\ IdleCid /\ IdleChains /\ IdleExtract
SpecEv == EvInit /\ [][EvidenceCall]_vars

\* extract_pubchem_cid and the dropna after it
CidInit == InitCid /\ IdleHet /\ IdleEv /\ IdleChains /\ IdleExtract
SpecCid == CidInit /\ [][ApplyExtract \/ DropNa]_vars

----------------------------------------------------------------------------
(* Properties of the edge loop *)

\* The relation and the direction tag a raw record carries: kind and direction
\* are read case-insensitively and trimmed; a missing direction is "absent".
RelationOf(rec) ==
    CASE rec.kind \in {PStr("binds"), PStr(" Binds")} -> "binds"
      [] rec.kind = PStr("treats") -> "treats"
      [] rec.kind = PStr("associates") -> "associates"
      [] rec.kind = PStr("causes") -> "causes"
      [] OTHER -> "other"
TagOf(rec) ==
    CASE rec.direction = None -> "absent"
      [] rec.direction \in {PStr("both"), PStr("Both ")} -> "both"
      [] rec.direction = PStr("forward") -> "forward"
      [] rec.direction = PStr("reverse") -> "reverse"

\* The canonical (subject kind, object kind) pair of each relation.
CanonicalPair(rel) ==
    CASE rel = "binds" -> <<"Compound", "Gene">>
      [] rel = "treats" -> <<"Compound", "Disease">>
      [] rel = "associates" -> <<"Gene", "Disease">>
      [] rel = "causes" -> <<"Compound", "Side Effect">>
      [] OTHER -> <<"", "">>

KindPair(rec) == <<rec.source_id[1], rec.target_id[1]>>
Reversed(pair) == <<pair[2], pair[1]>>
IsCanonical(rec) == KindPair(rec) = CanonicalPair(RelationOf(rec))
IsSwapped(rec) == KindPair(rec) = Reversed(CanonicalPair(RelationOf(rec)))
\* the record with its two endpoints exchanged
Mirror(rec) == [rec EXCEPT !.source_id = rec.target_id, !.target_id = rec.source_id]
\* the id of the endpoint of the given kind
IdOfKind(rec, kind) ==
    IF rec.source_id[1] = kind THEN rec.source_id[2] ELSE rec.target_id[2]

\* The subject and object ids of a row of each table.
SubjectOf(table, row) == IF table = "E_GENE_DISEASE" THEN row.entrez_id ELSE row.drugbank_id
ObjectOf(table, row) ==
    CASE table = "E_DRUG_TARGETS" -> row.entrez_id
      [] table = "E_DRUG_TREATS" -> row.doid
      [] table = "E_GENE_DISEASE" -> row.doid
      [] table = "E_DRUG_SE" -> row.umls_cui

TableOf(rel) ==
    CASE rel = "binds" -> "E_DRUG_TARGETS"
      [] rel = "treats" -> "E_DRUG_TREATS"
      [] rel = "associates" -> "E_GENE_DISEASE"
      [] rel = "causes" -> "E_DRUG_SE"
      [] OTHER -> "none"
Tables == {"E_DRUG_TARGETS", "E_DRUG_TREATS", "E_GENE_DISEASE", "E_DRUG_SE"}

ListOf(table) ==
    CASE table = "E_DRUG_TARGETS" -> E_DRUG_TARGETS
      [] table = "E_DRUG_TREATS" -> E_DRUG_TREATS
      [] table = "E_GENE_DISEASE" -> E_GENE_DISEASE
      [] table = "E_DRUG_SE" -> E_DRUG_SE
ListOfNext(table) ==
    CASE table = "E_DRUG_TARGETS" -> E_DRUG_TARGETS'
      [] table = "E_DRUG_TREATS" -> E_DRUG_TREATS'
      [] table = "E_GENE_DISEASE" -> E_GENE_DISEASE'
      [] table = "E_DRUG_SE" -> E_DRUG_SE'
CsvOf(csv, table) ==
    CASE table = "E_DRUG_TARGETS" -> csv.edges_drug_targets
      [] table = "E_DRUG_TREATS" -> csv.edges_drug_treats
      [] table = "E_GENE_DISEASE" -> csv.edges_gene_disease
      [] table = "E_DRUG_SE" -> csv.edges_drug_sideeffect

\* This step runs the loop body on e.
BodyStep == hpc = "body" /\ hpc' # "body"
NothingAppended == \A t \in Tables : ListOfNext(t) = ListOf(t)
\* This step appends exactly one row, to `table`, with the given subject and
\* object ids and the evidence of e, and leaves the other lists alone.
AppendedOnly(table, subject, object) ==
    /\ Len(ListOfNext(table)) = Len(ListOf(table)) + 1
    /\ SubSeq(ListOfNext(table), 1, Len(ListOf(table))) = ListOf(table)
    /\ LET row == ListOfNext(table)[Len(ListOfNext(table))] IN
        /\ SubjectOf(table, row) = subject
        /\ ObjectOf(table, row) = object
        /\ row.evidence = evidence_string(e.data)
    /\ \A t \in Tables \ {table} : ListOfNext(t) = ListOf(t)
\* What the loop body does to the lists for record rec.
EffectOf(rec) == [t \in Tables |-> AppendIf(ListOf(t), t, EdgeAppend(rec))]

\* C1: for the symmetric gene-disease 'associates' relation, the loop body's
\* effect on a record with a Gene and a Disease endpoint does not depend on
\* which endpoint is listed first: it is the effect of the mirrored record, and
\* for every direction tag.  With tag forward, both or absent the effect is the
\* canonical edge (entrez_id = str(g), doid = str(d), the record's evidence)
\* appended to the gene-disease list; with tag reverse neither order appends.
C1_AssociatesSymmetric ==
    [][ (BodyStep /\ RelationOf(e) = "associates"
            /\ (IsCanonical(e) \/ IsSwapped(e)))
        => /\ \A t \in Tables : ListOfNext(t) = EffectOf(Mirror(e))[t]
           /\ TagOf(e) \in {"forward", "both", "absent"}
                => AppendedOnly("E_GENE_DISEASE", PyStr(IdOfKind(e, "Gene")),
                                PyStr(IdOfKind(e, "Disease")))
           /\ TagOf(e) = "reverse" => NothingAppended ]_vars

\* C1 witness: the loop ended on a forward-tagged associates record listed
\* Disease first, and the gene-disease list holds its edge Gene 7157 -> D1.
C1_Witness ==
    /\ hpc = "end"
    /\ RelationOf(e) = "associates" /\ TagOf(e) = "forward"
    /\ e.source_id = <<"Disease", PStr("D1")>> /\ e.target_id = <<"Gene", PInt(7157)>>
    /\ Len(E_GENE_DISEASE) > 0
    /\ E_GENE_DISEASE[Len(E_GENE_DISEASE)] =
          [entrez_id |-> "7157", doid |-> "D1", evidence |-> "a;b"]

\* C2 as stated: for binds, treats and causes a record with swapped endpoints
\* is appended (swapped into canonical order) only when its tag is explicitly
\* both; with tag forward or absent it is dropped.
C2_SwappedOnlyExplicitBoth ==
    [][ (BodyStep /\ RelationOf(e) \in {"binds", "treats", "causes"} /\ IsSwapped(e))
        => /\ ~NothingAppended => TagOf(e) = "both"
           /\ TagOf(e) \in {"forward", "absent"} => NothingAppended ]_vars

\* C2 amended: for binds, treats and causes a record with swapped endpoints is
\* appended, swapped into canonical order, exactly when its direction tag is
\* both or is absent (an absent tag defaults to both); with tag forward or
\* reverse it is dropped.
C2_SwappedBothOrAbsent ==
    [][ (BodyStep /\ RelationOf(e) \in {"binds", "treats", "causes"} /\ IsSwapped(e))
        => IF TagOf(e) \in {"both", "absent"}
           THEN AppendedOnly(TableOf(RelationOf(e)), PyStr(e.target_id[2]),
                             PyStr(e.source_id[2]))
           ELSE NothingAppended ]_vars

\* C2 witness: the loop ended on a binds record Gene -> Compound without a
\* direction tag, and the drug-target list holds it swapped.
C2_Witness ==
    /\ hpc = "end"
    /\ RelationOf(e) = "binds" /\ TagOf(e) = "absent"
    /\ e.source_id = <<"Gene", PInt(7157)>> /\ e.target_id = <<"Compound", PStr("D1")>>
    /\ Len(E_DRUG_TARGETS) > 0
    /\ E_DRUG_TARGETS[Len(E_DRUG_TARGETS)] =
          [drugbank_id |-> "D1", entrez_id |-> "7157", evidence |-> "a;b"]

\* C3: a binds record with direction reverse appends no row to the drug-target
\* list (nor to any other list), whatever its endpoint kinds.
C3_BindsReverseDropped ==
    [][ (BodyStep /\ RelationOf(e) = "binds" /\ TagOf(e) = "reverse")
        => NothingAppended ]_vars

\* C3 witness: a run whose only record is a reverse-tagged binds record
\* Compound -> Gene has written an empty drug-target table.
C3_Witness ==
    /\ hpc = "done"
    /\ RelationOf(e) = "binds" /\ TagOf(e) = "reverse"
    /\ KindPair(e) = <<"Compound", "Gene">>
    /\ n_rows = 0
    /\ edge_csv.edges_drug_targets = <<>>

\* C4: every step of the loop body appends at most one row to at most one
\* list; a row appended to a relation's list has the id of the record's
\* endpoint of the canonical subject kind as subject and the id of its endpoint
\* of the canonical object kind as object; a record whose relation is not one
\* of the four or whose kind pair is neither orientation of the canonical pair
\* appends nothing; and each written edge table holds exactly the rows of its
\* list.
C4_CanonicalOrientation ==
    [][ /\ BodyStep =>
            LET rel == RelationOf(e) IN
            /\ \/ NothingAppended
               \/ /\ IsCanonical(e) \/ IsSwapped(e)
                  /\ AppendedOnly(TableOf(rel),
                                  PyStr(IdOfKind(e, CanonicalPair(rel)[1])),
                                  PyStr(IdOfKind(e, CanonicalPair(rel)[2])))
            /\ (rel = "other" \/ ~(IsCanonical(e) \/ IsSwapped(e))) => NothingAppended
        /\ (hpc = "end" /\ hpc' = "done") =>
            /\ NothingAppended
            /\ \A t \in Tables :
                {CsvOf(edge_csv', t)[i] : i \in 1..Len(CsvOf(edge_csv', t))}
                    = {ListOf(t)[i] : i \in 1..Len(ListOf(t))} ]_vars

\* C4 witness: the run ended on a both-tagged causes record Side Effect ->
\* Compound, and the written side-effect table holds it as Compound -> Side
\* Effect.
C4_Witness ==
    /\ hpc = "done"
    /\ RelationOf(e) = "causes" /\ TagOf(e) = "both"
    /\ e.source_id = <<"Side Effect", PStr("D1")>> /\ e.target_id = <<"Compound", PInt(7157)>>
    /\ LET csv == edge_csv.edges_drug_sideeffect IN
        /\ Len(csv) > 0
        /\ csv[Len(csv)] = [drugbank_id |-> "7157", umls_cui |-> "D1", evidence |-> "a;b"]

----------------------------------------------------------------------------
(* Properties of evidence_string *)

Present(p, k) == p.t = "dict" /\ HasKey(p, k)
Field(p, k) == GetKey(p, k)
SourceApplies(p) == Present(p, "source") /\ Field(p, "source").t = "str"
SourcesApplies(p) == ~SourceApplies(p) /\ Present(p, "sources")
PmidsApplies(p) == ~SourceApplies(p) /\ ~Present(p, "sources") /\ Present(p, "pmids")

\* The strings of a list's elements, and the arrangements of a sequence.
ElementStrings(x) == [i \in 1..Len(x.v) |-> PyStr(x.v[i])]
Arrangements(q) ==
    { [i \in 1..Len(q) |-> q[f[i]]] :
        f \in { g \in [1..Len(q) -> 1..Len(q)] : \A i, j \in 1..Len(q) : g[i] = g[j] => i = j } }
Ascending(q) == \A i, j \in 1..Len(q) : i < j => ~StrLess(q[j], q[i])
\* ";"-joined rendering of a multi-valued field in ascending order; a scalar
\* renders as itself.
SortedRendering(x) ==
    IF x.t = "list"
    THEN PyJoin(";", CHOOSE q \in Arrangements(ElementStrings(x)) : Ascending(q))
    ELSE PyStr(x)
IsCount(str) == \E n \in 0..9 : str = "pmids:" \o IntToStr(n)

\* C10 as stated: for every payload (absent or a JSON object) the result is (1) the string-valued source,
\* else (2) the sorted ";"-joined sources, else (3) "pmids:<count>" when pmids
\* is present, else (4) the compact serialization of the payload, and "" when
\* the payload is absent or {}.
C10_BranchesAsStated ==
    (evpc = "return" /\ payload.t \in {"null", "dict"}) =>
        CASE payload = None \/ payload = PDict(<<>>) -> evidence = ""
          [] SourceApplies(payload) -> evidence = Field(payload, "source").v
          [] SourcesApplies(payload) -> evidence = SortedRendering(Field(payload, "sources"))
          [] PmidsApplies(payload) ->
                /\ IsCount(evidence)
                /\ Field(payload, "pmids").t = "list"
                    => evidence = "pmids:" \o IntToStr(Len(Field(payload, "pmids").v))
          [] OTHER -> evidence = JsonDumps(payload)

\* C10 amended: exactly one branch produces the result, in this order: "" when
\* the payload is absent or falsy ({}, an empty string or list, 0); str(payload)
\* when it is not a dict; else (1) the value of source when present and
\* string-valued; else (2) when sources is present, its elements' strings sorted
\* and ";"-joined (a non-list sources renders as str(sources)); else (3) when
\* pmids is present, "pmids:<len(pmids)>" if pmids has a length and the bare
\* string "pmids" if it has none; else (4) the compact JSON of the payload.
C10_BranchOrder ==
    evpc = "return" =>
        CASE ~Truthy(payload) -> evidence = ""
          [] payload.t # "dict" -> evidence = PyStr(payload)
          [] SourceApplies(payload) -> evidence = Field(payload, "source").v
          [] SourcesApplies(payload) -> evidence = SortedRendering(Field(payload, "sources"))
          [] PmidsApplies(payload) ->
                IF Field(payload, "pmids").t \in {"list", "str", "dict"}
                THEN evidence = "pmids:" \o IntToStr(Len(Field(payload, "pmids").v))
                ELSE evidence = "pmids"
          [] OTHER -> evidence = JsonDumps(payload)

\* C10 witness: a payload holding sources ["b","a"] and pmids [1,2,3] (and no
\* string source) has been reduced to "a;b" alone.
C10_Witness ==
    /\ evpc = "return"
    /\ SourcesApplies(payload)
    /\ Field(payload, "sources") = PList(<<PStr("b"), PStr("a")>>)
    /\ Present(payload, "pmids")
    /\ Field(payload, "pmids") = PList(<<PInt(1), PInt(2), PInt(3)>>)
    /\ evidence = "a;b"

----------------------------------------------------------------------------
(* Properties of extract_pubchem_cid *)

\* The digits after "CID" when the trimmed input is "CID" followed by one or
\* more decimal digits; otherwise the input has no digits part.
HasCidForm(x) ==
    /\ x.t = "str"
    /\ LET q == PyStrip(x.v) IN
        Len(q) >= 4 /\ SubSeq(q, 1, 3) = "CID" /\ AllDigits(SubSeq(q, 4, Len(q)))
CidDigits(x) == LET q == PyStrip(x.v) IN SubSeq(q, 4, Len(q))
\* The number a digit string denotes, leading zeros included.
RECURSIVE Denotes(_, _)
Denotes(digits, acc) ==
    IF digits = "" THEN acc
    ELSE Denotes(Tail(digits), 10 * acc + (CHOOSE n \in 0..9 : IntToStr(n) = Head(digits)))

\* C7: once extract_pubchem_cid has returned, the result is the integer the
\* digits denote (leading zeros stripped, all zeros -> 0) when the trimmed
\* input is "CID" followed by one or more digits, and None for any other
\* input, a non-string included; after dropna the row is kept exactly when the
\* result is not None.
C7_ExtractPubchemCid ==
    /\ cpc \in {"dropna", "done"} =>
        IF HasCidForm(stitch_id)
        THEN pubchem_cid = PInt(Denotes(CidDigits(stitch_id), 0))
        ELSE pubchem_cid = None
    /\ cpc = "done" => (row_kept <=> HasCidForm(stitch_id))
    /\ (cpc \in {"dropna", "done"} /\ stitch_id = PStr("CID000010917")) => pubchem_cid = PInt(10917)
    /\ (cpc \in {"dropna", "done"} /\ stitch_id = PStr("CID0")) => pubchem_cid = PInt(0)
    /\ (cpc = "done" /\ stitch_id = PStr("ABC123")) => (pubchem_cid = None /\ ~row_kept)

\* C7 witness: 'CID000010917' has been parsed to 10917 and its row kept.
C7_Witness ==
    cpc = "done" /\ stitch_id = PStr("CID000010917") /\ pubchem_cid = PInt(10917) /\ row_kept

----------------------------------------------------------------------------
(* Properties of the mapping scripts *)

\* The seed ChEMBL ids: the chembl_id cells of the phase-4 drug file, trimmed.
SeedChemblIds == { PyStrip(AsTypeStr(PHASE4[i])) : i \in 1..Len(PHASE4) }
\* The left column of the resolved mapping, and the residual output.
ResolvedLeft == { OUT_MAP.rows[i].chembl_id : i \in 1..Len(OUT_MAP.rows) }
Residual == RowSet(OUT_MISS.rows)

\* C5: once the ChEMBL->DrugBank script has saved its results, both outputs
\* are written and the residual output is exactly the seed ids minus the ids
\* in the left column of the resolved mapping: no id is in both, and every
\* seed id is in one of them.
C5_ResidualIsSeedsMinusResolved ==
    dpc = "done" =>
        /\ OUT_MAP.written /\ OUT_MISS.written
        /\ Residual = SeedChemblIds \ ResolvedLeft
        /\ Residual \cap ResolvedLeft = {}
        /\ Residual \cup ResolvedLeft = SeedChemblIds

\* A run that resolved some seed ids and left others, one of them written
\* with surrounding blanks in the seed file.
C5_Witness ==
    /\ dpc = "done"
    /\ Residual # {} /\ ResolvedLeft # {}
    /\ \E i \in 1..Len(PHASE4) : PyStrip(PHASE4[i]) # PHASE4[i]

\* The PubChem CID a SIDER row parses to, and the one a UniChem row carries.
ParsesTo(r, c) ==
    /\ HasCidForm(PStr(r.stitch_id))
    /\ Denotes(CidDigits(PStr(r.stitch_id)), 0) = c
Carries(m, c) ==
    /\ m.pubchem_cid # "" /\ AllDigits(m.pubchem_cid)
    /\ Denotes(m.pubchem_cid, 0) = c
SiderCids == { Denotes(CidDigits(PStr(q)), 0) : q \in { x \in SiderStitchIds : HasCidForm(PStr(x)) } }
\* The tuples the two input tables determine.
SurvivingTuples ==
    { [stitch_id |-> PyStrip(t[1].stitch_id), pubchem_cid |-> t[3],
       chembl_id |-> PyStrip(t[2].chembl_id), umls_cui |-> t[1].umls_cui] :
      t \in { p \in RowSet(SIDER_EDGES) \X RowSet(UNICHEM_CHEMBL_TO_PUBCHEM.rows) \X SiderCids :
                ParsesTo(p[1], p[3]) /\ Carries(p[2], p[3]) } }

\* C8: the full mapping output, once written, holds exactly the distinct
\* (stitch_id, pubchem_cid, chembl_id, umls_cui) tuples for which a SIDER edge
\* row (stitch_id, umls_cui) parses to pubchem_cid and the UniChem table has a
\* row (chembl_id, pubchem_cid): each such tuple once, and no other tuple.
C8_FullMappingIsJoin ==
    OUT_MAP_FULL.written =>
        /\ RowSet(OUT_MAP_FULL.rows) = SurvivingTuples
        /\ Len(OUT_MAP_FULL.rows) = Cardinality(SurvivingTuples)

\* A many-to-many mapping: one STITCH id with two ChEMBL ids, and one ChEMBL
\* id with two STITCH ids, in the written output.
C8_Witness ==
    /\ OUT_MAP_FULL.written
    /\ \E a, b \in RowSet(OUT_MAP_FULL.rows) :
          a.stitch_id = b.stitch_id /\ a.chembl_id # b.chembl_id
    /\ \E a, b \in RowSet(OUT_MAP_FULL.rows) :
          a.stitch_id # b.stitch_id /\ a.chembl_id = b.chembl_id

\* The full mapping as the two required inputs determine it.
FullMappingOf(sider, unichem) ==
    sort_values(drop_duplicates(select_cols(
        merge_on_pubchem_cid(load_edges(sider), load_unichem(unichem)))))

\* C9: in the STITCH->ChEMBL script a missing UniChem file ends the run in an
\* error with neither output written, and nothing else does; a run without
\* the phase-4 file ends without error, its full output written with the
\* content the two required inputs determine (the same as when the phase-4
\* file is present) and its phase-4 output not written; with the phase-4 file
\* both outputs are written.
C9_RequiredAndOptionalFiles ==
    /\ (spc # "idle" /\ ~UNICHEM_CHEMBL_TO_PUBCHEM.exists) =>
          /\ spc \in {"start", "edges_loaded", "error"}
          /\ ~OUT_MAP_FULL.written /\ ~OUT_MAP_PHASE4.written
    /\ spc = "error" => ~UNICHEM_CHEMBL_TO_PUBCHEM.exists
    /\ spc = "done" =>
          /\ OUT_MAP_FULL = Written(FullMappingOf(SIDER_EDGES, UNICHEM_CHEMBL_TO_PUBCHEM.rows))
          /\ OUT_MAP_PHASE4.written = CHEMBL_PHASE4.exists

\* A finished run without the phase-4 file, its full output not empty.
C9_Witness ==
    /\ spc = "done" /\ ~CHEMBL_PHASE4.exists
    /\ OUT_MAP_FULL.written /\ OUT_MAP_FULL.rows # <<>>
    /\ ~OUT_MAP_PHASE4.written

\* The seed identifiers that enter the mapping stage of each script, and the
\* identifiers its outputs hold.
SiderSeeds == { edges[i].stitch_id : i \in 1..Len(edges) }
SiderWritten ==
    { OUT_MAP_FULL.rows[i].stitch_id : i \in 1..Len(OUT_MAP_FULL.rows) }
    \cup { OUT_MAP_PHASE4.rows[i].stitch_id : i \in 1..Len(OUT_MAP_PHASE4.rows) }
DrugbankSeeds == RowSet(df_drugs)
DrugbankWritten == ResolvedLeft \cup Residual
UniprotSeeds == target_uniprots
UniprotWritten == { OUT.rows[i].uniprot : i \in 1..Len(OUT.rows) }

\* C6: after a run of any of the three mapping scripts, every seed identifier
\* that entered the mapping stage is in an output of the script: in the
\* resolved mapping, or else in a residual output.
C6_NoSeedDropped ==
    /\ spc = "done" => SiderSeeds \subseteq SiderWritten
    /\ dpc = "done" => DrugbankSeeds \subseteq DrugbankWritten
    /\ upc = "done" => UniprotSeeds \subseteq UniprotWritten

----------------------------------------------------------------------------
(* Properties of the ChEMBL extraction *)

\* Synonym fill is on and the synonym table exists.
SynonymFill == args.fill_synonyms /\ con.has_syn
\* The synonyms the source lists for a molecule.
SynonymsOf(m) ==
    { con.ms[i].synonyms : i \in { j \in 1..Len(con.ms) : con.ms[j].molregno = m.molregno } }
    \ {None}
\* The lexicographically smallest of them.
SmallestSynonym(m) ==
    CHOOSE x \in SynonymsOf(m) : \A y \in SynonymsOf(m) : ~StrLess(y.v, x.v)
\* The name candidates of a molecule, in priority order.
Candidates(m) ==
    <<m.pref_name,
      IF SynonymFill /\ SynonymsOf(m) # {} THEN SmallestSynonym(m) ELSE None,
      m.chembl_id>>
FirstNonNull(c) ==
    IF ~IsNone(c[1]) THEN c[1] ELSE IF ~IsNone(c[2]) THEN c[2] ELSE c[3]

\* C11: in the drug node output every name is neither null nor empty, and is
\* the first non-null candidate, in the order preferred name, chosen synonym,
\* ChEMBL id, of a molecule with the row's ChEMBL id (so the ChEMBL id itself
\* when the other candidates are null).
C11_NameNeverNullOrEmpty ==
    NODES_DRUG.written =>
        \A r \in NODES_DRUG.rows :
            /\ ~IsNone(r.name)
            /\ r.name # PStr("")
            /\ \E m \in con.md :
                  m.chembl_id = r.chembl_id /\ r.name = FirstNonNull(Candidates(m))

\* The drug node rows of a run whose synonym table returns its rows as ms.
DrugNodesOfRun(ms) ==
    IF SynonymFill
    THEN q_drugs(con, args.phase, "COALESCE(md.pref_name, s.syn, md.chembl_id)", build_tmp_syn(ms))
    ELSE q_drugs(con, args.phase, "COALESCE(md.pref_name, md.chembl_id)", {})
\* The molecules of the drug node output that take their name from a synonym.
NamedBySynonym ==
    { m \in con.md : /\ ~IsNone(m.chembl_id) /\ where_phase(args.phase, m)
                     /\ IsNone(m.pref_name) /\ SynonymsOf(m) # {} }

\* C12: the synonym used for a molecule is the lexicographically smallest of
\* its synonyms, and a run over the same synonym rows in any other order
\* writes the same drug node names.
C12_SynonymDeterministic ==
    (NODES_DRUG.written /\ SynonymFill) =>
        /\ \A s \in tmp_syn : \A i \in 1..Len(con.ms) :
              (con.ms[i].molregno = s.molregno /\ ~IsNone(con.ms[i].synonyms)) =>
                  /\ ~IsNone(s.syn)
                  /\ ~StrLess(con.ms[i].synonyms.v, s.syn.v)
        /\ \A m \in NamedBySynonym :
              [chembl_id |-> m.chembl_id, name |-> SmallestSynonym(m)] \in NODES_DRUG.rows
        /\ \A other \in Arrangements(con.ms) : DrugNodesOfRun(other) = NODES_DRUG.rows

\* A molecule named by a synonym that is not the first one the table returns
\* for it.
C12_Witness ==
    /\ NODES_DRUG.written /\ SynonymFill
    /\ \E m \in NamedBySynonym :
          /\ [chembl_id |-> m.chembl_id, name |-> SmallestSynonym(m)] \in NODES_DRUG.rows
          /\ Cardinality(SynonymsOf(m)) > 1
          /\ first_synonym(con.ms, m.molregno) # SmallestSynonym(m)

\* The resolver has decided the drug_mechanism-target_dictionary pair, resp.
\* the drug_mechanism-molecule_dictionary pair.
TdPairDecided == xpc \notin {"idle", "start"}
MdPairDecided == xpc \notin {"idle", "start", "td_resolved"} /\ xerror # DmTdError
\* The predicates of each pair, and the columns each one references.
NumericTd == "td.tid = dm.tid"
NaturalTd == {"td.chembl_id = dm.target_chembl_id", "td.target_chembl_id = dm.target_chembl_id"}
NumericMd == "md.molregno = dm.molregno"
NaturalMd == "md.chembl_id = dm.molecule_chembl_id"
ColumnsOf(join) ==
    CASE join = "td.tid = dm.tid" -> [td |-> {"tid"}, dm |-> {"tid"}, md |-> {}]
      [] join = "td.chembl_id = dm.target_chembl_id" ->
            [td |-> {"chembl_id"}, dm |-> {"target_chembl_id"}, md |-> {}]
      [] join = "td.target_chembl_id = dm.target_chembl_id" ->
            [td |-> {"target_chembl_id"}, dm |-> {"target_chembl_id"}, md |-> {}]
      [] join = "md.molregno = dm.molregno" -> [td |-> {}, dm |-> {"molregno"}, md |-> {"molregno"}]
      [] join = "md.chembl_id = dm.molecule_chembl_id" ->
            [td |-> {}, dm |-> {"molecule_chembl_id"}, md |-> {"chembl_id"}]
      [] OTHER -> [td |-> {}, dm |-> {}, md |-> {}]
Exists(join) ==
    /\ ColumnsOf(join).td \subseteq con.td_cols
    /\ ColumnsOf(join).dm \subseteq con.dm_cols
    /\ ColumnsOf(join).md \subseteq con.md_cols

\* C13: once the resolver has decided a table pair, the numeric predicate is
\* the one selected whenever its column (tid, resp. molregno) is on both
\* sides, whatever natural-key columns there are; a natural-key predicate is
\* selected exactly when the numeric one is not available and the natural-key
\* columns are on both sides; and a selected predicate references only
\* columns of the given column sets.  (The molecule pair is decided only when
\* the target pair did not fail.)
C13_ResolverPriority ==
    /\ TdPairDecided =>
          /\ Exists(NumericTd) => dm_td_join = NumericTd
          /\ dm_td_join \in NaturalTd <=>
                ~Exists(NumericTd) /\ \E j \in NaturalTd : Exists(j)
          /\ dm_td_join \in {NumericTd} \cup NaturalTd => Exists(dm_td_join)
    /\ MdPairDecided =>
          /\ Exists(NumericMd) => dm_md_join = NumericMd
          /\ dm_md_join = NaturalMd <=> ~Exists(NumericMd) /\ Exists(NaturalMd)
          /\ dm_md_join \in {NumericMd, NaturalMd} => Exists(dm_md_join)

\* Both pairs decided: the numeric predicate chosen although the natural-key
\* columns are there too, and a natural-key predicate chosen where tid is
\* missing on one side.
C13_Witness ==
    /\ MdPairDecided
    /\ dm_md_join = NumericMd /\ Exists(NaturalMd)
    /\ dm_td_join \in NaturalTd

\* A predicate of the pair has its columns on both sides.
TdAvailable == Exists(NumericTd) \/ \E j \in NaturalTd : Exists(j)
MdAvailable == Exists(NumericMd) \/ Exists(NaturalMd)
\* The string sub occurs in s.
Occurs(sub, s) == \E i \in 1..(Len(s) - Len(sub) + 1) : SubSeq(s, i, i + Len(sub) - 1) = sub

\* C14: when a table pair has no predicate with its columns on both sides,
\* the run never gets past the resolver: it stops in an error whose message
\* names drug_mechanism and the other table of the failing pair, no join is
\* assigned for that pair, and none of the three output tables (nor the
\* synonym helper table) is written.
C14_SchemaMismatchFatal ==
    /\ (xpc # "idle" /\ ~TdAvailable) =>
          /\ xpc \in {"start", "error"}
          /\ dm_td_join = NoJoin /\ dm_md_join = NoJoin
          /\ xpc = "error" =>
                Occurs("drug_mechanism", xerror) /\ Occurs("target_dictionary", xerror)
    /\ (xpc # "idle" /\ TdAvailable /\ ~MdAvailable) =>
          /\ xpc \in {"start", "td_resolved", "error"}
          /\ dm_md_join = NoJoin
          /\ xpc = "error" =>
                Occurs("drug_mechanism", xerror) /\ Occurs("molecule_dictionary", xerror)
    /\ (xpc # "idle" /\ ~(TdAvailable /\ MdAvailable)) =>
          /\ ~NODES_DRUG.written /\ ~EDGES_DRUG_TARGETS.written /\ ~NODES_TARGET.written
          /\ tmp_syn = {}

\* The run stopped on the molecule pair, after the target pair was resolved.
C14_Witness ==
    /\ xpc = "error" /\ xerror = DmMdError
    /\ TdAvailable /\ ~MdAvailable
    /\ dm_td_join # NoJoin
    /\ ~NODES_DRUG.written

\* The ChEMBL ids in the drug node output and the subjects of the edge output.
DrugNodeIds == { r.chembl_id : r \in NODES_DRUG.rows }
EdgeSubjectIds == { r.chembl_id : r \in EDGES_DRUG_TARGETS.rows }
\* The max_phase values the source lists for a ChEMBL id.
PhasesOf(id) == { m.max_phase : m \in { x \in con.md : x.chembl_id = id } }
\* The ChEMBL ids of the molecules that have a mechanism on a target with a
\* protein accession.
Mechanised ==
    { m.chembl_id :
        m \in { x \in con.md :
                 /\ ~IsNone(x.chembl_id)
                 /\ \E d \in DrugMechanism, c \in TargetComponents, q \in ComponentSequences :
                       /\ d.molregno = x.molregno /\ c.tid = d.tid
                       /\ q.component_id = c.component_id /\ ~IsNone(q.accession) } }

\* C15: with the phase-4 filter every drug in the drug node output, and every
\* subject of a drug-target edge, is a molecule the source lists with
\* max_phase 4, so a molecule listed only with max_phase 1, 2, 3 or null is in
\* neither; with filter 1-4 it is one listed with a max_phase from 1 to 4;
\* with filter all no molecule is left out on phase: every molecule with a
\* ChEMBL id is a drug node and every one with a mechanism on a protein
\* target is an edge subject.
C15_PhaseFilter ==
    /\ args.phase = "4" =>
          \A id \in DrugNodeIds \cup EdgeSubjectIds : PInt(4) \in PhasesOf(id)
    /\ args.phase = "1-4" =>
          \A id \in DrugNodeIds \cup EdgeSubjectIds :
              \E p \in PhasesOf(id) : ~IsNone(p) /\ p.v \in 1..4
    /\ (args.phase = "all" /\ NODES_DRUG.written) =>
          DrugNodeIds = { m.chembl_id : m \in con.md } \ {None}
    /\ (args.phase = "all" /\ EDGES_DRUG_TARGETS.written) =>
          EdgeSubjectIds = Mechanised

\* A phase-4 run: a phase-3 molecule with a mechanism is in neither output,
\* a phase-4 molecule is in both.
C15_Witness ==
    /\ args.phase = "4" /\ EDGES_DRUG_TARGETS.written
    /\ \E m \in con.md :
          /\ m.max_phase = PInt(3) /\ m.chembl_id \in Mechanised
          /\ m.chembl_id \notin DrugNodeIds \cup EdgeSubjectIds
    /\ DrugNodeIds \cap EdgeSubjectIds # {}

----------------------------------------------------------------------------
(* Properties of the node tables *)

\* No identifier is in two rows of a table: for a table held as a set of
\* rows, and for one held as a sequence of rows.
UniqueIn(rows, Id(_)) == \A a, b \in rows : Id(a) = Id(b) => a = b
UniqueAlong(rows, Id(_)) ==
    \A i, j \in 1..Len(rows) : Id(rows[i]) = Id(rows[j]) => i = j
ChemblIdOf(r) == r.chembl_id
UniprotOf(r) == r.uniprot
NodeIdOf(r) == r.id
CuiOf(r) == r.umls_cui

\* C16: in every node table written (ChEMBL drug and target nodes, the four
\* Hetionet node tables, the SIDER side-effect nodes) no identifier is in
\* more than one row.
C16_OneRowPerEntity ==
    /\ UniqueIn(NODES_DRUG.rows, ChemblIdOf)
    /\ UniqueIn(NODES_TARGET.rows, UniprotOf)
    /\ UniqueAlong(node_csv.nodes_compound, NodeIdOf)
    /\ UniqueAlong(node_csv.nodes_gene, NodeIdOf)
    /\ UniqueAlong(node_csv.nodes_disease, NodeIdOf)
    /\ UniqueAlong(node_csv.nodes_sideeffect, NodeIdOf)
    /\ UniqueAlong(NODES_SIDE_EFFECT_SIDER.rows, CuiOf)
==============================================================================
